---- MODULE Spec2Model ----
(***************************************************************************)
(* Eigenfolio / Traeky: the encrypted multi-profile vault                  *)
(* (src/src/auth/profileStore.ts) and the file sync engine's merge         *)
(* (src/unnamed/part_004, src/unnamed/part_003).                           *)
(*                                                                         *)
(* Every asynchronous function is split at the awaits at which shared      *)
(* state is read or written; awaits of pure computations (hashing, key     *)
(* derivation) are folded into the step that follows them.  A key-value    *)
(* store request takes effect when it is issued (IndexedDB runs requests   *)
(* on one object store in the order they were made); its continuation is   *)
(* a later step.                                                           *)
(***************************************************************************)
EXTENDS Integers, Sequences, FiniteSets, TLC

\* ------------------------------------------------------------------ bounds
MaxProfiles == 2      \* profile ids generateProfileId can hand out
MaxNextId   == 3      \* cap on nextTransactionId
MaxInFlight == 2      \* persistActiveProfile calls in flight at once
MaxClock    == 2      \* distinct instants nowIso can return
MaxRevision == 3      \* cap on db.meta.revision
MaxTimerClock == 5    \* ticks of the browser's clock
MaxSchedules == 3     \* scheduleAutoSync calls
MaxSyncCalls == 3     \* writeSyncFileNow calls
MaxBackups == 2       \* entries of pendingCsvBackups
MaxTextLen == 2       \* characters of a profile id or a PIN, as text

\* absent values: a record where a record is expected, 0 where a number is
None == [none |-> TRUE]
NoId == 0
Live == [live |-> TRUE]
DecryptionError == [error |-> "DecryptionError"]

ProfileIds == 1..MaxProfiles
Pins       == {"1234", "9999"}
Names      == {"Alice", "Bob"}
Configs    == {"cfgDefault", "cfgUser"}
TxIds      == 1..(MaxNextId - 1)

VARIABLES
  \* ---- profileStore.ts module state
  cachedProfilesIndex,  \* [currentProfileId, profiles]
  cachedPinIndex,       \* profile id -> [v, hash] or None
  activeProfile,        \* None or [meta, pinHash, pinHashVersion, pin, data]
  kv,                   \* the key-value store: [index, pinIndex, data]
  legacy,               \* localStorage keys of the single-profile scheme
  cmd,                  \* the async vault call in progress, or None
  persists,             \* persistActiveProfile calls in flight, in issue order
  freeIds,              \* the ids generateProfileId is still to return, in order
  capacity,             \* how many persists the caller lets be in flight
  now,                  \* what nowIso() returns
  result,               \* how the last async vault call ended
  \* ---- history
  issued,               \* ids getNextActiveProfileTxId returned, in call order, since
                        \* the session's data object was created
  everIssued,           \* per profile, the largest id ever held or issued
  atLogout,             \* [id, data] of the session logout just ended, or None
  \* ---- sync engine module state (part_004 / part_003)
  db,                   \* None or the loaded TraekyDb
  isDirty,
  lastSyncedAt,
  conflicts,
  imported,             \* the parsed file importDbInteractive is about to merge
  mergeCase             \* per profile id, the branch the last merge took

vaultVars == <<cachedProfilesIndex, cachedPinIndex, activeProfile, kv, legacy,
               cmd, persists, freeIds, capacity, result, issued, everIssued, atLogout>>
dbVars    == <<db, isDirty, lastSyncedAt, conflicts, imported, mergeCase>>

VARIABLES
  codecOp,             \* the storage-codec function applied last
  codecIn,             \* what it was applied to
  codecOut             \* what it returned or threw

codecVars == <<codecOp, codecIn, codecOut>>

VARIABLES
  isInitializing,      \* the sync engine's flag of the same name
  fileHandle,          \* the live file handle, None if there is none
  idb,                 \* IndexedDB: the stored handle, snapshot and file label
  linkedFile,          \* the bytes of the file behind the handle
  legacyStorage,       \* the legacy profiles of window.localStorage
  engineJob,           \* the initDbAuto or syncDbNow call at an await, or None
  durableDb,           \* the database last loaded or last written successfully
  startedFrom,         \* the source that gave initDbAuto its database
  fsAccess,            \* the browser has showOpenFilePicker and showSaveFilePicker
  fileLabel,           \* the engine's variable of that name, "" for null
  engineResult,        \* how the engine call that settled last ended, or None
  lastSave             \* the last write of the database out of the browser

engineVars == <<isInitializing, fileHandle, idb, linkedFile, legacyStorage,
                engineJob, durableDb, startedFrom, fsAccess, fileLabel,
                engineResult, lastSave>>

VARIABLES
  syncTimer,           \* kvDb.ts: the id setTimeout returned, 0 for null
  timers,              \* the browser's pending timers: id and due time
  timerClock,          \* the browser's clock, in ticks
  timerSeq,            \* the id the last setTimeout returned
  kvVersion,           \* how often the key-value store has been changed
  syncHandle,          \* a sync file handle is stored under SYNC_FILE_HANDLE_KEY
  syncCalls,           \* the calls of writeSyncFileNow so far
  bursts,              \* the scheduleAutoSync calls made while no timer was pending
  lastScheduleAt       \* the time of the last scheduleAutoSync call

timerVars == <<syncTimer, timers, timerClock, timerSeq, kvVersion, syncHandle,
               syncCalls, bursts, lastScheduleAt>>

VARIABLES
  migrDb,              \* the database handed to the legacy migrator
  pendingCsvBackups,   \* legacyLocalStorageMigration.ts: the list of that name
  localStorage,        \* what scanLocalStorage and the legacy keys give
  ranOn                \* the migrator that ran last and the storage it saw

migrVars == <<migrDb, pendingCsvBackups, localStorage, ranOn>>

VARIABLES
  lsProfiles,          \* window.localStorage: the profile keys of the older builds
  boot,                \* where initProfileStore stands
  legacyKeyConfigured, \* the build carries a legacy encryption key
  deleted              \* the ids deleteActiveProfile was called for

bootVars == <<lsProfiles, boot, legacyKeyConfigured, deleted>>

VARIABLES
  parked,              \* an async profileStore call suspended at an await while
                       \* another call runs, or None
  lastWrite,           \* kvDb.ts: the value under DB_LAST_WRITE_KEY, 0 when absent
  syncFile,            \* what the stored sync file handle gives
  kvResult,            \* how the last readSyncFileIfNewer or import ended
  replica              \* a second, empty vault after an import, or None

transferVars == <<lastWrite, syncFile, kvResult, replica>>

InitTransferIdle ==
  /\ parked = None
  /\ lastWrite = 0
  /\ syncFile = None
  /\ kvResult = None
  /\ replica = None

otherVars == <<codecVars, engineVars, timerVars, migrVars, bootVars, parked, transferVars>>
codecFrame == <<vaultVars, now, dbVars, engineVars, timerVars, migrVars, bootVars, parked, transferVars>>
engineFrame == <<vaultVars, now, imported, mergeCase, codecVars, timerVars, migrVars, bootVars, parked, transferVars>>
timerFrame == <<vaultVars, now, dbVars, codecVars, engineVars, migrVars, bootVars, parked, transferVars>>
migrFrame == <<vaultVars, now, dbVars, codecVars, engineVars, timerVars, bootVars, parked, transferVars>>
vars      == <<vaultVars, now, dbVars, otherVars>>

\* ------------------------------------------------------------ small helpers
Max(S) == IF S = {} THEN 0 ELSE CHOOSE m \in S : \A x \in S : x <= m

Range(s) == {s[i] : i \in DOMAIN s}

RemoveAt(s, i) == SubSeq(s, 1, i - 1) \o SubSeq(s, i + 1, Len(s))

\* ------------------------------------------------- profileSecurity.ts
\* sha256Hex of the salted input, kept as the input it hashes
hashPinLegacy(pin) == [pre |-> "legacy-salt", id |-> NoId, pin |-> pin]

hashPinForProfile(profileId, pin) == [pre |-> "traeky:pin-hash:v2", id |-> profileId, pin |-> pin]

deriveProfilePassphrase(profileId, pin) ==
  [pre |-> "traeky:profile-encryption:v2", id |-> profileId, pin |-> pin]

\* cryptoService: authenticated encryption under a passphrase-derived key.
\* The salt and iv are left out; a ciphertext is the plaintext sealed under
\* its passphrase.
encryptJsonWithPassphrase(payload, passphrase) == [pass |-> passphrase, plain |-> payload]

decryptJsonWithPassphrase(encrypted, passphrase) ==
  IF encrypted.pass = passphrase THEN encrypted.plain ELSE DecryptionError

encryptProfilePayload(profileId, pin, payload) ==
  encryptJsonWithPassphrase(payload, deriveProfilePassphrase(profileId, pin))

decryptProfilePayload(profileId, pin, encrypted) ==
  decryptJsonWithPassphrase(encrypted, deriveProfilePassphrase(profileId, pin))

\* ------------------------------------------------- profileStore.ts helpers
createDefaultConfig == "cfgDefault"

createEmptyProfileData ==
  [version |-> 1, transactions |-> {}, nextTransactionId |-> 1,
   config |-> createDefaultConfig]

\* localStorage of the single-profile scheme: every key absent, or the
\* values an older build left (its next id is above every id it issued).
\* a key that is absent: <<>> for the transaction list, 0 for the next id,
\* "" for the config
NoLegacy == [transactions |-> <<>>, nextId |-> NoId, config |-> ""]

LegacyStates ==
  {NoLegacy} \cup
  {l \in [transactions : {<<t>> : t \in SUBSET (1..(MaxNextId - 2))},
          nextId : 0..(MaxNextId - 1), config : {"cfgUser"}] :
      l.nextId # NoId => l.nextId > Max(l.transactions[1])}

profileHasLegacyData ==
  legacy.transactions # <<>> \/ legacy.config # "" \/ legacy.nextId # NoId

readLegacyTransactions ==
  IF legacy.transactions = <<>> THEN {} ELSE legacy.transactions[1]

readLegacyNextId == legacy.nextId

readLegacyConfig == legacy.config

\* lines 383-387 of createInitialProfile
LegacyNextId ==
  IF readLegacyNextId # NoId THEN readLegacyNextId
  ELSE IF readLegacyTransactions # {} THEN Max(readLegacyTransactions) + 1
  ELSE 1

\* writeProfilesIndex: the cache and the store are written together
WriteIndexKv(index) == [kv EXCEPT !.index = index]

FindProfile(profiles, id) ==
  IF \E i \in DOMAIN profiles : profiles[i].id = id
  THEN profiles[CHOOSE i \in DOMAIN profiles :
                  profiles[i].id = id /\ \A j \in 1..(i - 1) : profiles[j].id # id]
  ELSE None

\* A persist that still holds a reference to the session's data object sees
\* the object as it is when it is serialized; once the session drops the
\* object nothing mutates it any more.
Detach(ps, data) ==
  [i \in DOMAIN ps |-> IF ps[i].payload = Live THEN [ps[i] EXCEPT !.payload = data]
                       ELSE ps[i]]

EndSession(ps) == [i \in DOMAIN ps |-> [ps[i] EXCEPT !.ended = TRUE]]

\* persistActiveProfile up to its first await (lines 346-352)
StartPersist(ps, ap) ==
  Append(ps, [id |-> ap.meta.id, pin |-> ap.pin, payload |-> Live,
              pc |-> "encrypt", ended |-> FALSE])

LEGACY_FIXED_PASSPHRASE == [pre |-> "fixed", id |-> NoId, pin |-> "legacy-app-key"]

\* the key is a build setting: without it the fallback throws (lines 78, 85-87)
decryptProfilePayloadLegacy(encrypted) ==
  IF ~legacyKeyConfigured THEN DecryptionError
  ELSE decryptJsonWithPassphrase(encrypted, LEGACY_FIXED_PASSPHRASE)

\* name.trim() || fallback; a blank name is modelled by ""
TrimOr(name, fallback) == IF name = "" THEN fallback ELSE name

Session(meta, pinHash, pinHashVersion, pin, data) ==
  [meta |-> meta, pinHash |-> pinHash, pinHashVersion |-> pinHashVersion,
   pin |-> pin, data |-> data]

\* the persists in flight once the current session object is replaced
Dropped(ps) == IF activeProfile = None THEN ps ELSE Detach(ps, activeProfile.data)

Touch(h, id, data) == [h EXCEPT ![id] = Max({h[id]} \cup data.transactions)]

\* ------------------------------------------------------------------ Init
EmptyIndex == [currentProfileId |-> NoId, profiles |-> <<>>]

EmptyKv == [index |-> None, pinIndex |-> [p \in ProfileIds |-> None], data |-> [p \in ProfileIds |-> None]]

\* A profile an older build left in the store: v1 PIN hash, payload under
\* the fixed application key.
OldProfileMeta == [id |-> 1, name |-> "Alice", createdAt |-> 1, updatedAt |-> 1]

OldProfileData ==
  [version |-> 1, transactions |-> {1}, nextTransactionId |-> 2, config |-> "cfgUser"]

InitVaultFresh ==
  /\ cachedProfilesIndex = EmptyIndex
  /\ cachedPinIndex = [p \in ProfileIds |-> None]
  /\ kv = EmptyKv
  /\ legacy \in LegacyStates
  /\ freeIds \in {<<1>>, [i \in 1..MaxProfiles |-> i]}

InitVaultOld ==
  /\ cachedProfilesIndex = [currentProfileId |-> 1, profiles |-> <<OldProfileMeta>>]
  /\ cachedPinIndex = [p \in ProfileIds |->
                         IF p = 1 THEN [v |-> 1, hash |-> hashPinLegacy("1234")] ELSE None]
  /\ kv = [index |-> cachedProfilesIndex, pinIndex |-> cachedPinIndex,
           data |-> [p \in ProfileIds |->
                      IF p = 1
                      THEN encryptJsonWithPassphrase(OldProfileData, LEGACY_FIXED_PASSPHRASE)
                      ELSE None]]
  /\ legacy = NoLegacy
  /\ freeIds = [i \in 1..(MaxProfiles - 1) |-> i + 1]

InitVault ==
  /\ (InitVaultFresh \/ InitVaultOld)
  /\ capacity \in 1..MaxInFlight
  /\ activeProfile = None
  /\ cmd = None
  /\ persists = <<>>
  /\ result = "none"
  /\ issued = <<>>
  /\ everIssued = [p \in ProfileIds |-> 0]
  /\ atLogout = None

InitDbIdle ==
  /\ db = None
  /\ isDirty = FALSE
  /\ lastSyncedAt = 0
  /\ conflicts = 0
  /\ imported = None
  /\ mergeCase = [p \in {1, 2} |-> "none"]

InitCodecIdle ==
  /\ codecOp = "none"
  /\ codecIn = None
  /\ codecOut = None

InitEngineIdle ==
  /\ isInitializing = FALSE
  /\ fileHandle = None
  /\ idb = [handle |-> None, snapshot |-> None, label |-> ""]
  /\ linkedFile = None
  /\ legacyStorage = None
  /\ engineJob = None
  /\ durableDb = None
  /\ startedFrom = "none"
  /\ fsAccess = TRUE
  /\ fileLabel = ""
  /\ engineResult = None
  /\ lastSave = None

InitTimerIdle ==
  /\ syncTimer = 0
  /\ timers = {}
  /\ timerClock = 0
  /\ timerSeq = 0
  /\ kvVersion = 0
  /\ syncHandle = TRUE
  /\ syncCalls = <<>>
  /\ bursts = 0
  /\ lastScheduleAt = 0

InitMigrIdle ==
  /\ migrDb = None
  /\ pendingCsvBackups = <<>>
  /\ localStorage = None
  /\ ranOn = None

\* initProfileStore has run on a browser without profile keys in localStorage
NoLsProfiles == [index |-> None, pinIndex |-> None, data |-> [p \in ProfileIds |-> None]]

InitBootIdle ==
  /\ lsProfiles = NoLsProfiles
  /\ boot = [pc |-> "done", k |-> 0]
  /\ legacyKeyConfigured = TRUE
  /\ deleted = {}
  /\ InitTransferIdle

InitOtherIdle == InitCodecIdle /\ InitEngineIdle /\ InitTimerIdle /\ InitMigrIdle /\ InitBootIdle

Init == InitVault /\ now = 1 /\ InitDbIdle /\ InitOtherIdle

\* ------------------------------------------------------- persistActiveProfile
\* encryptJsonWithPassphrase serializes the payload object it was handed
PersistSerialize(i) ==
  /\ persists[i].pc = "encrypt" /\ persists[i].payload = Live
  /\ persists' = [persists EXCEPT ![i].payload = activeProfile.data]
  /\ UNCHANGED <<cachedProfilesIndex, cachedPinIndex, activeProfile, kv, legacy, cmd,
                 freeIds, capacity, result, issued, everIssued, atLogout, now, dbVars, otherVars>>

\* lines 348-354: the encryption resolves; the key is built from the session
\* that is active now and kvSet is issued
PersistEncrypted(i) ==
  /\ persists[i].pc = "encrypt" /\ persists[i].payload # Live
  /\ IF activeProfile = None
     THEN /\ persists' = RemoveAt(persists, i)      \* TypeError on activeProfile.meta
          /\ kv' = kv
     ELSE LET encrypted == encryptProfilePayload(persists[i].id, persists[i].pin,
                                                  persists[i].payload)
          IN /\ kv' = [kv EXCEPT !.data[activeProfile.meta.id] = encrypted]
             /\ persists' = [persists EXCEPT ![i].pc = "put"]
  /\ UNCHANGED <<cachedProfilesIndex, cachedPinIndex, activeProfile, legacy, cmd,
                 freeIds, capacity, result, issued, everIssued, atLogout, now, dbVars, otherVars>>

\* lines 355-364: kvSet resolved; the index entry of the active profile is touched
PersistStored(i) ==
  /\ persists[i].pc = "put"
  /\ persists' = RemoveAt(persists, i)
  /\ IF activeProfile = None
     THEN UNCHANGED <<cachedProfilesIndex, kv>>      \* TypeError on activeProfile.meta
     ELSE LET upd(p) == IF p.id = activeProfile.meta.id
                        THEN [p EXCEPT !.updatedAt = now, !.name = activeProfile.meta.name]
                        ELSE p
              index == [currentProfileId |-> activeProfile.meta.id,
                        profiles |-> [k \in DOMAIN cachedProfilesIndex.profiles |->
                                       upd(cachedProfilesIndex.profiles[k])]]
          IN /\ cachedProfilesIndex' = index
             /\ kv' = WriteIndexKv(index)
  /\ UNCHANGED <<cachedPinIndex, activeProfile, legacy, cmd,
                 freeIds, capacity, result, issued, everIssued, atLogout, now, dbVars, otherVars>>

\* ------------------------------------------------------- session mutators
CanPersist == activeProfile # None /\ Len(persists) < capacity

\* the caller passes the list it holds, less deletions, plus transactions
\* carrying ids it obtained from getNextActiveProfileTxId
setActiveProfileTransactions(items) ==
  /\ CanPersist
  /\ LET ap == [activeProfile EXCEPT !.data.transactions = items]
     IN /\ activeProfile' = ap
        /\ persists' = StartPersist(persists, ap)
  /\ UNCHANGED <<cachedProfilesIndex, cachedPinIndex, kv, legacy, cmd,
                 freeIds, capacity, result, issued, everIssued, atLogout, now, dbVars, otherVars>>

setActiveProfileConfig(config) ==
  /\ CanPersist
  /\ LET ap == [activeProfile EXCEPT !.data.config = config]
     IN /\ activeProfile' = ap
        /\ persists' = StartPersist(persists, ap)
  /\ UNCHANGED <<cachedProfilesIndex, cachedPinIndex, kv, legacy, cmd,
                 freeIds, capacity, result, issued, everIssued, atLogout, now, dbVars, otherVars>>

NextTxIdStuck(id) == id

NextTxId(id) == id + 1

getNextActiveProfileTxId ==
  /\ CanPersist
  /\ activeProfile.data.nextTransactionId < MaxNextId
  /\ LET id == activeProfile.data.nextTransactionId
         ap == [activeProfile EXCEPT !.data.nextTransactionId = NextTxId(id)]
     IN /\ activeProfile' = ap
        /\ persists' = StartPersist(persists, ap)
        /\ issued' = Append(issued, id)
        /\ everIssued' = [everIssued EXCEPT ![ap.meta.id] = Max({@, id})]
  /\ UNCHANGED <<cachedProfilesIndex, cachedPinIndex, kv, legacy, cmd,
                 freeIds, capacity, result, atLogout, now, dbVars, otherVars>>

renameActiveProfile(name) ==
  /\ CanPersist
  /\ TrimOr(name, "") # ""
  /\ LET ap == [activeProfile EXCEPT !.meta.name = TrimOr(name, "")]
     IN /\ activeProfile' = ap
        /\ persists' = StartPersist(persists, ap)
  /\ UNCHANGED <<cachedProfilesIndex, cachedPinIndex, kv, legacy, cmd,
                 freeIds, capacity, result, issued, everIssued, atLogout, now, dbVars, otherVars>>

resetActiveProfileData ==
  /\ CanPersist
  /\ LET ap == [activeProfile EXCEPT !.data = createEmptyProfileData]
     IN /\ activeProfile' = ap
        /\ persists' = StartPersist(Dropped(persists), ap)
  /\ issued' = <<>>
  /\ UNCHANGED <<cachedProfilesIndex, cachedPinIndex, kv, legacy, cmd,
                 freeIds, capacity, result, everIssued, atLogout, now, dbVars, otherVars>>

logoutActiveProfileSession ==
  /\ activeProfile # None
  /\ activeProfile' = None
  /\ persists' = EndSession(Dropped(persists))
  /\ issued' = <<>>
  /\ atLogout' = [id |-> activeProfile.meta.id, data |-> activeProfile.data]
  /\ UNCHANGED <<cachedProfilesIndex, cachedPinIndex, kv, legacy, cmd,
                 freeIds, capacity, result, everIssued, now, dbVars, otherVars>>

\* ------------------------------------------------------- createInitialProfile
CreateInitialStart(name, pin) ==
  /\ cmd = None
  /\ freeIds # <<>>
  /\ cmd' = [op |-> "createInitial", pc |-> "hash", index |-> cachedProfilesIndex,
             id |-> Head(freeIds), name |-> TrimOr(name, "Default"), pin |-> pin]
  /\ freeIds' = Tail(freeIds)
  /\ UNCHANGED <<capacity, cachedProfilesIndex, cachedPinIndex, activeProfile, kv, legacy,
                 persists, result, issued, everIssued, atLogout, now, dbVars, otherVars>>

LegacyProfileData ==
  [version |-> 1, transactions |-> readLegacyTransactions,
   nextTransactionId |-> LegacyNextId,
   config |-> IF readLegacyConfig # "" THEN readLegacyConfig ELSE createDefaultConfig]

\* lines 372-419, run when the PIN hash resolves
CreateInitialHashed ==
  /\ cmd # None /\ cmd.op = "createInitial"
  /\ Len(persists) < capacity
  /\ LET pinHash == hashPinForProfile(cmd.id, cmd.pin)
         meta == [id |-> cmd.id, name |-> cmd.name, createdAt |-> now, updatedAt |-> now]
         data == IF profileHasLegacyData THEN LegacyProfileData ELSE createEmptyProfileData
         ap == Session(meta, pinHash, 2, cmd.pin, data)
         index == [currentProfileId |-> cmd.id, profiles |-> Append(cmd.index.profiles, meta)]
         pinIndex == [cachedPinIndex EXCEPT ![cmd.id] = [v |-> 2, hash |-> pinHash]]
     IN /\ legacy' = NoLegacy
        /\ activeProfile' = ap
        /\ cachedProfilesIndex' = index
        /\ cachedPinIndex' = pinIndex
        /\ kv' = [kv EXCEPT !.index = index, !.pinIndex = pinIndex]
        /\ persists' = StartPersist(Dropped(persists), ap)
        /\ everIssued' = Touch(everIssued, cmd.id, data)
        /\ atLogout' = None
  /\ issued' = <<>>
  /\ cmd' = None
  /\ result' = "created"
  /\ UNCHANGED <<freeIds, capacity, now, dbVars, otherVars>>

\* ------------------------------------------------------- createAdditionalProfile
CreateAdditionalStart(name, pin) ==
  /\ cmd = None
  /\ freeIds # <<>>
  /\ cmd' = [op |-> "createAdditional", pc |-> "hash", index |-> cachedProfilesIndex,
             id |-> Head(freeIds), name |-> TrimOr(name, "Profile"), pin |-> pin]
  /\ freeIds' = Tail(freeIds)
  /\ UNCHANGED <<capacity, cachedProfilesIndex, cachedPinIndex, activeProfile, kv, legacy,
                 persists, result, issued, everIssued, atLogout, now, dbVars, otherVars>>

\* lines 556-569: the hash and the encryption resolved, kvSet is issued
CreateAdditionalEncrypted ==
  /\ cmd # None /\ cmd.op = "createAdditional" /\ cmd.pc = "hash"
  /\ LET meta == [id |-> cmd.id, name |-> cmd.name, createdAt |-> now, updatedAt |-> now]
         encrypted == encryptProfilePayload(cmd.id, cmd.pin, createEmptyProfileData)
     IN /\ kv' = [kv EXCEPT !.data[cmd.id] = encrypted]
        /\ cmd' = [op |-> "createAdditional", pc |-> "put", index |-> cmd.index,
                   id |-> cmd.id, name |-> cmd.name, pin |-> cmd.pin, meta |-> meta]
  /\ UNCHANGED <<cachedProfilesIndex, cachedPinIndex, activeProfile, legacy,
                 persists, freeIds, capacity, result, issued, everIssued, atLogout, now, dbVars, otherVars>>

\* lines 570-585
CreateAdditionalFinish ==
  /\ cmd # None /\ cmd.op = "createAdditional" /\ cmd.pc = "put"
  /\ LET pinHash == hashPinForProfile(cmd.id, cmd.pin)
         index == [currentProfileId |-> cmd.id,
                   profiles |-> Append(cmd.index.profiles, cmd.meta)]
         pinIndex == [cachedPinIndex EXCEPT ![cmd.id] = [v |-> 2, hash |-> pinHash]]
     IN /\ cachedProfilesIndex' = index
        /\ cachedPinIndex' = pinIndex
        /\ kv' = [kv EXCEPT !.index = index, !.pinIndex = pinIndex]
        /\ activeProfile' = Session(cmd.meta, pinHash, 2, cmd.pin, createEmptyProfileData)
        /\ persists' = Dropped(persists)
        /\ atLogout' = None
  /\ issued' = <<>>
  /\ cmd' = None
  /\ result' = "created"
  /\ UNCHANGED <<legacy, freeIds, capacity, everIssued, now, dbVars, otherVars>>

\* ------------------------------------------------------- loginProfile
\* lines 425-450: the synchronous tests, up to the await of the PIN hash
LoginStart(profileId, pin) ==
  /\ cmd = None
  /\ LET index == cachedProfilesIndex
         meta == FindProfile(index.profiles, profileId)
     IN IF Len(index.profiles) = 0 \/ meta = None
        THEN /\ result' = "Profile not found"
             /\ cmd' = cmd
        ELSE IF cachedPinIndex[meta.id] = None
        THEN /\ result' = "Invalid PIN"
             /\ cmd' = cmd
        ELSE /\ cmd' = [op |-> "login", pc |-> "hash", index |-> index, meta |-> meta,
                        stored |-> cachedPinIndex[meta.id], pin |-> pin]
             /\ result' = result
  /\ UNCHANGED <<cachedProfilesIndex, cachedPinIndex, activeProfile, kv, legacy,
                 persists, freeIds, capacity, issued, everIssued, atLogout, now, dbVars, otherVars>>

LoginPinHash(c) ==
  IF c.stored.v = 2 THEN hashPinForProfile(c.meta.id, c.pin) ELSE hashPinLegacy(c.pin)

PinMatchesAnything(pinHash, stored) == TRUE

PinMatches(pinHash, stored) == pinHash = stored.hash

\* lines 452-466: the hash resolved; a v1 entry is upgraded and kvGet is issued
LoginVerify ==
  /\ cmd # None /\ cmd.op = "login" /\ cmd.pc = "hash"
  /\ IF ~PinMatches(LoginPinHash(cmd), cmd.stored)
     THEN /\ result' = "Invalid PIN"
          /\ cmd' = None
          /\ UNCHANGED <<cachedPinIndex, kv>>
     ELSE LET upgraded == hashPinForProfile(cmd.meta.id, cmd.pin)
              pinIndex == IF cmd.stored.v = 1
                          THEN [cachedPinIndex EXCEPT
                                  ![cmd.meta.id] = [v |-> 2, hash |-> upgraded]]
                          ELSE cachedPinIndex
          IN /\ cachedPinIndex' = pinIndex
             /\ kv' = IF cmd.stored.v = 1 THEN [kv EXCEPT !.pinIndex = pinIndex] ELSE kv
             /\ cmd' = [op |-> "login", pc |-> "decrypt", index |-> cmd.index,
                        meta |-> cmd.meta, stored |-> cmd.stored, pin |-> cmd.pin,
                        pinHash |-> upgraded,
                        encrypted |-> kv.data[cmd.meta.id], data |-> None]
             /\ result' = result
  /\ UNCHANGED <<cachedProfilesIndex, activeProfile, legacy, persists, freeIds, capacity,
                 issued, everIssued, atLogout, now, dbVars, otherVars>>

\* lines 486-503: the session is installed and the index entry touched
LoginInstall(c, data) ==
  LET updatedMeta == [c.meta EXCEPT !.updatedAt = now]
      upd(p) == IF p.id = c.meta.id THEN updatedMeta ELSE p
      index == [currentProfileId |-> c.meta.id,
                profiles |-> [i \in DOMAIN c.index.profiles |-> upd(c.index.profiles[i])]]
  IN /\ activeProfile' = Session(updatedMeta, c.pinHash, 2, c.pin, data)
     /\ cachedProfilesIndex' = index
     /\ kv' = [kv EXCEPT !.index = index]
     /\ persists' = Dropped(persists)
     /\ issued' = <<>>
     /\ everIssued' = Touch(everIssued, c.meta.id, data)
     /\ atLogout' = None
     /\ cmd' = None
     /\ result' = "logged in"

LoginFails(message) ==
  /\ result' = message
  /\ cmd' = None
  /\ UNCHANGED <<cachedProfilesIndex, activeProfile, kv, persists, issued,
                 everIssued, atLogout>>

\* lines 467-485: kvGet and the decryption resolved
LoginDecrypted ==
  /\ cmd # None /\ cmd.op = "login" /\ cmd.pc = "decrypt"
  /\ IF cmd.encrypted = None
     THEN LoginFails("Profile data not found")
     ELSE LET data == decryptProfilePayload(cmd.meta.id, cmd.pin, cmd.encrypted)
              old == decryptProfilePayloadLegacy(cmd.encrypted)
          IN IF data # DecryptionError
             THEN IF data.version # 1
                  THEN LoginFails("Unsupported profile data version")
                  ELSE LoginInstall(cmd, data)
             ELSE IF old = DecryptionError
             THEN LoginFails("DecryptionError")
             ELSE \* re-encrypted under the PIN, kvSet issued
                  /\ kv' = [kv EXCEPT !.data[cmd.meta.id] =
                              encryptProfilePayload(cmd.meta.id, cmd.pin, old)]
                  /\ cmd' = [cmd EXCEPT !.pc = "upgrade", !.data = old]
                  /\ UNCHANGED <<cachedProfilesIndex, activeProfile, persists, issued,
                                 everIssued, atLogout, result>>
  /\ UNCHANGED <<cachedPinIndex, legacy, freeIds, capacity, now, dbVars, otherVars>>

\* lines 480-503 after the legacy fallback's kvSet resolved
LoginUpgraded ==
  /\ cmd # None /\ cmd.op = "login" /\ cmd.pc = "upgrade"
  /\ IF cmd.data.version # 1
     THEN LoginFails("Unsupported profile data version")
     ELSE LoginInstall(cmd, cmd.data)
  /\ UNCHANGED <<cachedPinIndex, legacy, freeIds, capacity, now, dbVars, otherVars>>

Tick ==
  /\ now < MaxClock
  /\ now' = now + 1
  /\ UNCHANGED <<vaultVars, dbVars, otherVars>>

\* ------------------------------------------------------- the sync engine
\* (part_004; part_003 carries the same mergeImportedDb over the JSON file)
FileIds == {1, 2}

\* updatedAt values are toISOString outputs, kept as the instant they name
Times == {1, 2}

EncryptedPayloads ==
  {[salt |-> "s1", iv |-> "i1", ciphertext |-> "c1"],
   [salt |-> "s2", iv |-> "i2", ciphertext |-> "c2"]}

\* profile 1 was renamed and saved at either instant; profile 2 was left as
\* it was created
FileProfiles(id) ==
  IF id = 1 THEN [id : {id}, name : Names, createdAt : {1}, updatedAt : Times]
  ELSE [id : {id}, name : {"Bob"}, createdAt : {1}, updatedAt : {1}]

\* what parseDbFromSqlite returns for the files of this vault: profiles in
\* created_at order, a payload for some of them and none for an id that has
\* no profile, currentProfileId null or the id of a listed profile
FileLists ==
  {<<>>} \cup {<<p>> : p \in FileProfiles(1) \cup FileProfiles(2)}
         \cup {<<p, q>> : p \in FileProfiles(1), q \in FileProfiles(2)}

ListIds(profiles) == {profiles[i].id : i \in DOMAIN profiles}

FileSet ==
  {f \in [index : [currentProfileId : {NoId} \cup FileIds, profiles : FileLists],
          profileData : [FileIds -> {None} \cup EncryptedPayloads],
          updatedAt : {1}, meta : [revision : {1}]] :
     /\ f.index.currentProfileId \in {NoId} \cup ListIds(f.index.profiles)
     /\ \A id \in FileIds : f.profileData[id] # None => id \in ListIds(f.index.profiles)}

\* Date.parse on two toISOString outputs orders them as instants
compareIsoReversed(a, b) == IF a = b THEN 0 ELSE IF a < b THEN 1 ELSE -1

compareIso(a, b) == IF a = b THEN 0 ELSE IF a < b THEN -1 ELSE 1

\* new Set([...local ids, ...imported ids]) in insertion order
AllIdsLocalOnly(local, imp) ==
  [i \in 1..Len(local.index.profiles) |-> local.index.profiles[i].id]

AllIds(local, imp) ==
  LET l == local.index.profiles
      m == imp.index.profiles
      extra == SelectSeq(m, LAMBDA p : p.id \notin ListIds(l))
  IN [i \in 1..Len(l) |-> l[i].id] \o [i \in 1..Len(extra) |-> extra[i].id]

Ciphertext(payload) == IF payload = None THEN "" ELSE payload.ciphertext

\* the payloads of one profile conflict (lines 555-563)
HasConflictBlind(localPayload, importedPayload) == FALSE

HasConflict(localPayload, importedPayload) ==
  /\ Ciphertext(localPayload) # ""
  /\ Ciphertext(importedPayload) # ""
  /\ Ciphertext(localPayload) # Ciphertext(importedPayload)

\* one pass of the loop at lines 529-566; acc is
\* [profiles, data, conflictCount, cases]
MergeOne(local, imp, id, acc) ==
  LET lp == FindProfile(local.index.profiles, id)
      ip == FindProfile(imp.index.profiles, id)
      adopt(why) == [profiles |-> Append(acc.profiles, ip),
                     data |-> [acc.data EXCEPT ![id] = imp.profileData[id]],
                     conflictCount |-> acc.conflictCount,
                     cases |-> [acc.cases EXCEPT ![id] = why]]
      keep(why, n) == [profiles |-> Append(acc.profiles, lp),
                       data |-> acc.data,
                       conflictCount |-> acc.conflictCount + n,
                       cases |-> [acc.cases EXCEPT ![id] = why]]
  IN IF lp = None /\ ip # None THEN adopt("imported only")
     ELSE IF lp # None /\ ip = None THEN keep("local only", 0)
     ELSE IF lp = None \/ ip = None THEN acc
     ELSE LET cmp == compareIso(lp.updatedAt, ip.updatedAt)
          IN IF cmp < 0 THEN adopt("imported newer")
             ELSE IF cmp = 0
             THEN IF HasConflict(local.profileData[id], imp.profileData[id])
                  THEN keep("conflict", 1)
                  ELSE keep("tie", 0)
             ELSE keep("local newer", 0)

RECURSIVE MergeLoop(_, _, _, _)
MergeLoop(local, imp, ids, acc) ==
  IF ids = <<>> THEN acc
  ELSE MergeLoop(local, imp, Tail(ids), MergeOne(local, imp, Head(ids), acc))

NoCases == [id \in FileIds |-> "none"]

\* lines 568-573: the current profile is kept while the merged payloads
\* hold an entry for it
MergedCurrentProfileId(current, mergedProfiles, mergedData) ==
  IF current # NoId /\ mergedData[current] = None
  THEN IF Len(mergedProfiles) > 0 THEN mergedProfiles[1].id ELSE NoId
  ELSE current

\* markDbDirty applied to d
MarkedDirtyStale(d) == [d EXCEPT !.updatedAt = now]

MarkedDirty(d) ==
  [d EXCEPT !.updatedAt = now,
            !.meta.revision = IF d.meta.revision + 1 > 1 THEN d.meta.revision + 1 ELSE 1]

\* importDbInteractive up to the call of mergeImportedDb: the file was
\* picked and parsed
ImportFilePicked(file) ==
  /\ imported = None
  /\ IF db = None THEN TRUE ELSE db.meta.revision < MaxRevision
  /\ imported' = file
  /\ UNCHANGED <<db, isDirty, lastSyncedAt, conflicts, mergeCase, vaultVars, now, otherVars>>

mergeImportedDb ==
  /\ imported # None
  /\ imported' = None
  /\ IF db = None
     THEN /\ db' = imported
          /\ isDirty' = FALSE
          /\ conflicts' = 0
          /\ lastSyncedAt' = now
          /\ mergeCase' = NoCases
     ELSE /\ db.meta.revision < MaxRevision
          /\ LET m == MergeLoop(db, imported, AllIds(db, imported),
                                [profiles |-> <<>>, data |-> db.profileData,
                                 conflictCount |-> 0, cases |-> NoCases])
                 merged == [db EXCEPT
                              !.index.profiles = m.profiles,
                              !.profileData = m.data,
                              !.index.currentProfileId =
                                 MergedCurrentProfileId(db.index.currentProfileId,
                                                        m.profiles, m.data)]
             IN /\ db' = MarkedDirty(merged)
                /\ conflicts' = m.conflictCount
                /\ isDirty' = TRUE
                /\ mergeCase' = m.cases
                /\ lastSyncedAt' = lastSyncedAt
  /\ UNCHANGED <<vaultVars, now, otherVars>>

\* ------------------------------------------------------- the storage codecs
\* Timestamps are ISO strings in the source, compared as strings; here they
\* are positive integers and 0 stands for a missing or empty one.  Profile
\* ids are positive integers and NoId stands for null and for "".
Langs == {"de", "en"}
GhostId == 3
CodecPayloads ==
  {[version |-> 1, algorithm |-> "AES-GCM", salt |-> "s1", iv |-> "i1",
    ciphertext |-> "c1", scope |-> "pin"],
   [version |-> 1, algorithm |-> "AES-GCM", salt |-> "s2", iv |-> "i2",
    ciphertext |-> "c2", scope |-> ""]}

IsDb(x) == "profileData" \in DOMAIN x
IsError(x) == "error" \in DOMAIN x

createEmptyDb(nowIso, lang) ==
  [version |-> 1, createdAt |-> nowIso, updatedAt |-> nowIso,
   index |-> [currentProfileId |-> NoId, profiles |-> <<>>],
   profileData |-> [id \in FileIds |-> None],
   ui |-> [lang |-> lang, mode |-> "local-only"],
   meta |-> [revision |-> 1]]

\* the file written by serializeDbToSqlite: the four tables of createSchema;
\* profiles holds its rows in the order of insertion
serializeDbToSqlite(dbObj) ==
  LET createdAt == IF dbObj.createdAt # 0 THEN dbObj.createdAt ELSE now
      updatedAt == IF dbObj.updatedAt # 0 THEN dbObj.updatedAt ELSE createdAt
      revision  == Max({1, dbObj.meta.revision})
      profiles  == dbObj.index.profiles
      UpdatedAtOf(id) == (CHOOSE k \in DOMAIN profiles : profiles[k].id = id)
  IN [meta |-> [version |-> 1, createdAt |-> createdAt, updatedAt |-> updatedAt,
                revision |-> revision,
                currentProfileId |-> dbObj.index.currentProfileId],
      ui_settings |-> [lang |-> dbObj.ui.lang, mode |-> dbObj.ui.mode],
      profiles |-> profiles,
      profile_data |->
        [id \in FileIds |->
           IF id \in ListIds(profiles) /\ dbObj.profileData[id] # None
           THEN [enc |-> dbObj.profileData[id],
                 updated_at |-> profiles[UpdatedAtOf(id)].updatedAt]
           ELSE None]]

\* bytes that are not an SQLite database: opening them throws inside sql.js
NotADatabase == [garbage |-> TRUE]

\* SELECT ... ORDER BY created_at ASC: every arrangement of the rows with
\* non-decreasing created_at; rows with equal created_at come in any order
OrderByCreatedAt(rows) ==
  LET n == Len(rows)
      Perms == {f \in [1..n -> 1..n] : \A a, b \in 1..n : a # b => f[a] # f[b]}
  IN {[k \in 1..n |-> rows[f[k]]] : f \in
        {g \in Perms : \A a, b \in 1..n :
            a < b => rows[g[a]].createdAt <= rows[g[b]].createdAt}}

readProfilesIndex(file) ==
  {LET profiles == SelectSeq(ordered, LAMBDA row : row.id # NoId /\ row.name # "")
       current  == file.meta.currentProfileId
   IN [currentProfileId |->
         IF current # NoId /\ current \in ListIds(profiles) THEN current ELSE NoId,
       profiles |-> profiles]
   : ordered \in OrderByCreatedAt(file.profiles)}

readProfileData(file) ==
  [id \in FileIds |->
     IF file.profile_data[id] = None
     THEN None
     ELSE LET enc == file.profile_data[id].enc
          IN IF enc.salt = "" \/ enc.iv = "" \/ enc.ciphertext = ""
             THEN None
             ELSE [version |-> 1, algorithm |-> "AES-GCM", salt |-> enc.salt,
                   iv |-> enc.iv, ciphertext |-> enc.ciphertext,
                   scope |-> IF enc.scope \in {"legacy-appkey", "pin"}
                             THEN enc.scope ELSE ""]]

asLang(value, fallback) == IF value \in Langs THEN value ELSE fallback

readUi(file, fallbackLang) ==
  IF file.ui_settings = None
  THEN [lang |-> fallbackLang, mode |-> "local-only"]
  ELSE [lang |-> asLang(file.ui_settings.lang, fallbackLang), mode |-> "local-only"]

\* every database parseDbFromSqlite can return for the file, or what it throws
parseDbFromSqlite(binary, fallbackLang) ==
  IF binary = NotADatabase
  THEN {[error |-> "file is not a database"]}
  ELSE LET createdAt == IF binary.meta.createdAt # 0 THEN binary.meta.createdAt ELSE now
           updatedAt == IF binary.meta.updatedAt # 0 THEN binary.meta.updatedAt
                        ELSE createdAt
       IN {[version |-> 1, createdAt |-> createdAt, updatedAt |-> updatedAt,
            index |-> index,
            profileData |-> readProfileData(binary),
            ui |-> readUi(binary, fallbackLang),
            meta |-> [revision |-> Max({1, binary.meta.revision})]]
           : index \in readProfilesIndex(binary)}

\* a JSON text is its parse: a syntax error, a value that is no object, or an
\* object whose absent members are 0 (version, timestamps, revision) or None
NotJson == [syntax |-> "error"]
JsonScalar == [scalar |-> TRUE]
IsJsonObject(j) == "version" \in DOMAIN j

\* parseDb of the strict JSON codec
parseDb(jsonText) ==
  IF jsonText = NotJson THEN [error |-> "SyntaxError"]
  ELSE IF ~IsJsonObject(jsonText) \/ jsonText.version # 1
  THEN [error |-> "Unsupported database format"]
  ELSE LET createdAt == IF jsonText.createdAt # 0 THEN jsonText.createdAt ELSE now
           updatedAt == IF jsonText.updatedAt # 0 THEN jsonText.updatedAt ELSE createdAt
       IN [version |-> 1, createdAt |-> createdAt, updatedAt |-> updatedAt,
           index |-> IF jsonText.index = None
                     THEN [currentProfileId |-> NoId, profiles |-> <<>>]
                     ELSE [currentProfileId |-> jsonText.index.currentProfileId,
                           profiles |-> jsonText.index.profiles],
           profileData |-> jsonText.profileData,
           ui |-> [lang |-> IF jsonText.ui # None /\ jsonText.ui.lang = "de"
                            THEN "de" ELSE "en",
                   mode |-> "local-only"],
           meta |-> [revision |-> IF jsonText.meta = None THEN 1
                                  ELSE Max({1, jsonText.meta.revision})]]

\* parseDb of storage/traekyDb.ts, which falls back to a fresh empty database
parseDbDefensive(serialized) ==
  LET base == createEmptyDb(now, "en")
  IN IF serialized = NotJson \/ ~IsJsonObject(serialized)
     THEN base
     ELSE [version |-> IF serialized.version # 0 THEN serialized.version
                       ELSE base.version,
           createdAt |-> IF serialized.createdAt # 0 THEN serialized.createdAt
                         ELSE base.createdAt,
           updatedAt |-> IF serialized.updatedAt # 0 THEN serialized.updatedAt
                         ELSE base.updatedAt,
           index |-> IF serialized.index = None THEN base.index
                     ELSE [currentProfileId |-> serialized.index.currentProfileId,
                           profiles |-> serialized.index.profiles],
           profileData |-> serialized.profileData,
           ui |-> IF serialized.ui = None THEN base.ui
                  ELSE [lang |-> serialized.ui.lang, mode |-> "local-only"],
           meta |-> IF serialized.meta = None THEN base.meta
                    ELSE [revision |-> serialized.meta.revision]]

\* ---- the inputs of the codecs
CodecProfiles(id) ==
  [id : {id}, name : {IF id = 1 THEN "Alice" ELSE "Bob"}, createdAt : Times,
   updatedAt : {2}]
CodecLists ==
  {<<>>} \cup {<<p>> : p \in CodecProfiles(1) \cup CodecProfiles(2)}
         \cup {<<p, q>> : p \in CodecProfiles(1), q \in CodecProfiles(2)}
         \cup {<<q, p>> : p \in CodecProfiles(1), q \in CodecProfiles(2)}

\* the databases the engine can hold: distinct listed ids, payloads only for
\* listed profiles, a current profile that is listed
CodecDbs ==
  {d \in [version : {1}, createdAt : {1}, updatedAt : Times,
          index : [currentProfileId : {NoId} \cup FileIds, profiles : CodecLists],
          profileData : [FileIds -> {None} \cup CodecPayloads],
          ui : [lang : Langs, mode : {"local-only"}],
          meta : [revision : {1, 2}]] :
     /\ d.index.currentProfileId \in {NoId} \cup ListIds(d.index.profiles)
     /\ \A id \in FileIds :
          d.profileData[id] # None => id \in ListIds(d.index.profiles)}

\* files as they may be found on disk, written by anything
RawRows(id) ==
  [id : {id}, name : {"", IF id = 1 THEN "Alice" ELSE "Bob"}, createdAt : {1},
   updatedAt : {2}]
RawLists ==
  {<<>>} \cup {<<p>> : p \in RawRows(1)}
         \cup {<<p, q>> : p \in RawRows(1), q \in RawRows(2)}
SqliteFiles ==
  {NotADatabase} \cup
  [meta : [version : {0, 1, 2}, createdAt : {0, 1}, updatedAt : {2},
           revision : {0, 2}, currentProfileId : {NoId, 1, GhostId}],
   ui_settings : {None, [lang |-> "fr", mode |-> "local-only"]},
   profiles : RawLists,
   profile_data : {[id \in FileIds |-> None]}]
JsonTexts ==
  {NotJson, JsonScalar} \cup
  [version : {0, 1, 2}, createdAt : {0, 1}, updatedAt : {2},
   index : {None} \cup [currentProfileId : {NoId, 1, GhostId},
                        profiles : {<<>>} \cup {<<p>> : p \in CodecProfiles(1)}],
   profileData : {[id \in FileIds |-> None]},
   ui : {None, [lang |-> "de"]},
   meta : {None, [revision |-> 0], [revision |-> 2]}]

\* ---- one application of a codec function
CodecApplied(op, input, output) ==
  /\ codecOp = "none"
  /\ codecOp' = op
  /\ codecIn' = input
  /\ codecOut' = output
  /\ UNCHANGED codecFrame

DeserializeSqlite ==
  \E binary \in SqliteFiles, lang \in Langs :
    \E out \in parseDbFromSqlite(binary, lang) :
      CodecApplied("parseDbFromSqlite", binary, out)

DeserializeJson ==
  \E jsonText \in JsonTexts : CodecApplied("parseDb", jsonText, parseDb(jsonText))

DeserializeJsonDefensive ==
  \E serialized \in JsonTexts :
    CodecApplied("parseDbDefensive", serialized, parseDbDefensive(serialized))

\* deserialize(serialize(db)) through the SQLite file
SqliteRoundTrip ==
  \E dbObj \in CodecDbs, lang \in Langs :
    \E out \in parseDbFromSqlite(serializeDbToSqlite(dbObj), lang) :
      CodecApplied("roundTrip", dbObj, out)

\* ------------------------------------------------------- the engine's life cycle
\* fsAccess says whether the browser offers the File System Access API: a
\* browser has showOpenFilePicker (supportsFileSystemAccess) and
\* showSaveFilePicker or neither.  defaultLang and fallbackLang are "en".
\* linkedFile is the file behind TheHandle, None if it is gone or may not
\* be read.
TheHandle == [handle |-> "traeky-db.sqlite"]

AliceRow(t) == [id |-> 1, name |-> "Alice", createdAt |-> 1, updatedAt |-> t]
BobRow == [id |-> 2, name |-> "Bob", createdAt |-> 1, updatedAt |-> 1]
PayloadOf(c) ==
  [version |-> 1, algorithm |-> "AES-GCM", salt |-> "s1", iv |-> "i1",
   ciphertext |-> c, scope |-> "pin"]

\* what the snapshot holds, and what the linked file holds after another
\* device has written it
SnapshotDb ==
  [createEmptyDb(1, "en") EXCEPT
     !.index = [currentProfileId |-> 1, profiles |-> <<AliceRow(1)>>],
     !.profileData = [id \in FileIds |-> IF id = 1 THEN PayloadOf("c1") ELSE None]]
LinkedDb ==
  [createEmptyDb(1, "en") EXCEPT
     !.updatedAt = 2,
     !.index = [currentProfileId |-> 1, profiles |-> <<AliceRow(2)>>],
     !.profileData = [id \in FileIds |-> IF id = 1 THEN PayloadOf("c2") ELSE None],
     !.meta.revision = 2]
\* a file of another vault, for openDbInteractive and importDbInteractive
OtherDb ==
  [createEmptyDb(1, "en") EXCEPT
     !.index = [currentProfileId |-> 2, profiles |-> <<BobRow>>],
     !.profileData = [id \in FileIds |-> IF id = 2 THEN PayloadOf("c3") ELSE None]]

\* a payload as the builds that kept profiles in localStorage wrote it:
\* without a scope
LegacyPayloadOf(c) == [PayloadOf(c) EXCEPT !.scope = ""]

\* the legacy profiles index and payloads of localStorage
LegacyProfiles ==
  [index |-> [currentProfileId |-> 2, profiles |-> <<BobRow>>],
   data |-> [id \in FileIds |-> IF id = 2 THEN LegacyPayloadOf("c4") ELSE None]]

\* migrateLegacyLocalStorageIntoDb of the engine: the migrated database and
\* whether anything was migrated
migrateLegacyLocalStorageIntoDb(target) ==
  LET unchanged == [migrated |-> FALSE, db |-> target]
  IN IF Len(target.index.profiles) > 0 THEN unchanged
     ELSE IF legacyStorage = None THEN unchanged
     ELSE LET idx == legacyStorage.index
              importedProfiles ==
                SelectSeq(idx.profiles, LAMBDA p : p.id # NoId /\ p.name # "")
              importedProfileData ==
                [id \in FileIds |->
                   IF id \in ListIds(importedProfiles) /\ legacyStorage.data[id] # None
                   THEN [legacyStorage.data[id] EXCEPT !.scope = "legacy-appkey"]
                   ELSE None]
              existingProfiles == target.index.profiles
              mergedProfiles ==
                existingProfiles \o
                SelectSeq(importedProfiles, LAMBDA p : p.id \notin ListIds(existingProfiles))
              added == {id \in FileIds : /\ importedProfileData[id] # None
                                         /\ target.profileData[id] = None}
              mergedProfileData ==
                [id \in FileIds |-> IF id \in added THEN importedProfileData[id]
                                    ELSE target.profileData[id]]
              existingCurrent == target.index.currentProfileId
              legacyCurrent ==
                IF idx.currentProfileId # NoId
                   /\ idx.currentProfileId \in ListIds(mergedProfiles)
                THEN idx.currentProfileId ELSE importedProfiles[1].id
              currentProfileId ==
                IF existingCurrent # NoId /\ existingCurrent \in ListIds(mergedProfiles)
                THEN existingCurrent ELSE legacyCurrent
          IN IF Len(importedProfiles) = 0 THEN unchanged
             ELSE IF Len(mergedProfiles) - Len(existingProfiles) <= 0 /\ added = {}
             THEN unchanged
             ELSE [migrated |-> TRUE,
                   db |-> [target EXCEPT
                             !.index = [currentProfileId |-> currentProfileId,
                                        profiles |-> mergedProfiles],
                             !.profileData = mergedProfileData,
                             !.meta.revision = Max({1, target.meta.revision + 1}),
                             !.updatedAt = now]]

\* a file handle the user can pick besides the linked one
OtherHandle == [handle |-> "other.sqlite"]

DefaultLabel == "traeky-db.sqlite"

\* the outcome of an engine call that has settled
Settled(op, outcome) == [op |-> op, outcome |-> outcome]

\* initDbAuto up to its first await
initDbAuto ==
  /\ db = None /\ ~isInitializing /\ engineJob = None
  /\ isInitializing' = TRUE
  /\ engineJob' = [op |-> "initDbAuto", pc |-> "tryRestoreHandle"]
  /\ UNCHANGED <<db, isDirty, lastSyncedAt, conflicts, fileHandle, idb, linkedFile,
                 legacyStorage, durableDb, startedFrom, fsAccess, fileLabel,
                 engineResult, lastSave, engineFrame>>

\* initDbAuto called while a database is loaded or another call is running:
\* it returns at once (line 368)
initDbAutoAgain ==
  /\ db # None \/ isInitializing
  /\ engineResult' = Settled("initDbAuto", "returned at once")
  /\ UNCHANGED <<db, isDirty, lastSyncedAt, conflicts, isInitializing, fileHandle, idb,
                 linkedFile, legacyStorage, engineJob, durableDb, startedFrom, fsAccess,
                 fileLabel, lastSave, engineFrame>>

IsAt(op, pc) == engineJob # None /\ engineJob.op = op /\ engineJob.pc = pc

tryRestoreHandle ==
  /\ IsAt("initDbAuto", "tryRestoreHandle")
  /\ fileHandle' = IF fsAccess /\ idb.handle # None THEN idb.handle ELSE fileHandle
  /\ engineJob' = [engineJob EXCEPT !.pc = "tryLoadFromSnapshot"]
  /\ UNCHANGED <<db, isDirty, lastSyncedAt, conflicts, isInitializing, idb, linkedFile,
                 legacyStorage, durableDb, startedFrom, fsAccess, fileLabel,
                 engineResult, lastSave, engineFrame>>

\* the databases a load of these bytes can give; none if the parse throws
Loadable(bytes) ==
  IF bytes = None THEN {} ELSE {d \in parseDbFromSqlite(bytes, "en") : IsDb(d)}

tryLoadFromSnapshot ==
  /\ IsAt("initDbAuto", "tryLoadFromSnapshot")
  /\ IF Loadable(idb.snapshot) = {}
     THEN /\ engineJob' = [engineJob EXCEPT !.pc = "tryLoadFromHandle"]
          /\ UNCHANGED <<db, isDirty, conflicts, durableDb, startedFrom, fileLabel>>
     ELSE \E loaded \in Loadable(idb.snapshot) :
            /\ db' = loaded
            /\ isDirty' = FALSE
            /\ conflicts' = 0
            /\ fileLabel' = IF idb.label # "" THEN idb.label ELSE fileLabel
            /\ durableDb' = loaded
            /\ startedFrom' = "snapshot"
            /\ engineJob' = [engineJob EXCEPT !.pc = "create"]
  /\ UNCHANGED <<lastSyncedAt, isInitializing, fileHandle, idb, linkedFile,
                 legacyStorage, fsAccess, engineResult, lastSave, engineFrame>>

\* getFile or the parse throws: the catch returns false and leaves
\* fileHandle as tryRestoreHandle set it (lines 196-216)
tryLoadFromHandle ==
  /\ IsAt("initDbAuto", "tryLoadFromHandle")
  /\ engineJob' = [engineJob EXCEPT !.pc = "create"]
  /\ IF ~fsAccess \/ fileHandle = None \/ Loadable(linkedFile) = {}
     THEN UNCHANGED <<db, isDirty, lastSyncedAt, conflicts, idb, durableDb, startedFrom,
                      fileLabel>>
     ELSE \E loaded \in Loadable(linkedFile) :
            /\ db' = loaded
            /\ isDirty' = FALSE
            /\ lastSyncedAt' = now
            /\ fileLabel' = fileHandle.handle
            /\ conflicts' = 0
            /\ idb' = [idb EXCEPT !.label = fileHandle.handle,
                                  !.snapshot = serializeDbToSqlite(loaded)]
            /\ durableDb' = loaded
            /\ startedFrom' = "handle"
  /\ UNCHANGED <<isInitializing, fileHandle, linkedFile, legacyStorage, fsAccess,
                 engineResult, lastSave, engineFrame>>

\* initDbAuto from the end of the loads to the await of the snapshot: the
\* empty database if nothing was loaded, then the legacy migration
InitCreateAndMigrate ==
  /\ IsAt("initDbAuto", "create")
  /\ LET created == IF db = None THEN createEmptyDb(now, "en") ELSE db
         m == migrateLegacyLocalStorageIntoDb(created)
     IN /\ db' = m.db
        /\ isDirty' = IF db = None \/ m.migrated THEN TRUE ELSE isDirty
        /\ lastSyncedAt' = IF db = None \/ m.migrated THEN 0 ELSE lastSyncedAt
        /\ conflicts' = IF db = None THEN 0 ELSE conflicts
        /\ fileLabel' = IF db = None /\ fileLabel = "" THEN DefaultLabel ELSE fileLabel
        /\ startedFrom' = IF db = None THEN "empty" ELSE startedFrom
  /\ engineJob' = [engineJob EXCEPT !.pc = "snapshot"]
  /\ UNCHANGED <<isInitializing, fileHandle, idb, linkedFile, legacyStorage,
                 durableDb, fsAccess, engineResult, lastSave, engineFrame>>

\* the snapshot and the label are stored and initDbAuto returns
InitSnapshotStored ==
  /\ IsAt("initDbAuto", "snapshot")
  /\ idb' = [idb EXCEPT !.snapshot = serializeDbToSqlite(db),
                        !.label = IF fileLabel # "" THEN fileLabel ELSE idb.label]
  /\ isInitializing' = FALSE
  /\ engineJob' = None
  /\ engineResult' = Settled("initDbAuto", "resolved")
  /\ UNCHANGED <<db, isDirty, lastSyncedAt, conflicts, fileHandle, linkedFile,
                 legacyStorage, durableDb, startedFrom, fsAccess, fileLabel, lastSave,
                 engineFrame>>

markDbDirty ==
  /\ db # None
  /\ db.meta.revision < MaxRevision
  /\ isDirty' = TRUE
  /\ db' = MarkedDirty(db)
  /\ UNCHANGED <<lastSyncedAt, conflicts, engineVars, engineFrame>>

\* ------------------------------------------------------- the engine's dialogs
At(pc) == engineJob # None /\ engineJob.pc = pc

\* syncDbNow from its serialization to the await of the save or of the
\* dialog (lines 438-446): through the bound handle if there is one, else
\* through a handle the user is asked for, else by download
SaveJob(op, dbObj, label) ==
  [op |-> op,
   pc |-> IF fsAccess /\ fileHandle # None THEN "saveViaHandle"
          ELSE IF fsAccess THEN "showSaveFilePicker" ELSE "saveViaDownload",
   binary |-> serializeDbToSqlite(dbObj),
   written |-> dbObj,
   suggested |-> IF label = "" THEN DefaultLabel ELSE label,
   handle |-> IF fsAccess THEN fileHandle ELSE None,
   prompted |-> FALSE]

syncDbNow ==
  /\ db # None /\ engineJob = None
  /\ engineJob' = SaveJob("syncDbNow", db, fileLabel)
  /\ UNCHANGED <<db, isDirty, lastSyncedAt, conflicts, isInitializing, fileHandle, idb,
                 linkedFile, legacyStorage, durableDb, startedFrom, fsAccess, fileLabel,
                 engineResult, lastSave, engineFrame>>

\* createNewDbInteractive up to the first await inside its syncDbNow
createNewDbInteractive ==
  /\ engineJob = None
  /\ LET created == createEmptyDb(now, "en")
     IN /\ db' = created
        /\ engineJob' = SaveJob("createNewDbInteractive", created, DefaultLabel)
  /\ isDirty' = TRUE
  /\ lastSyncedAt' = 0
  /\ conflicts' = 0
  /\ fileLabel' = DefaultLabel
  /\ UNCHANGED <<isInitializing, fileHandle, idb, linkedFile, legacyStorage,
                 durableDb, startedFrom, fsAccess, engineResult, lastSave, engineFrame>>

\* showSaveFilePicker resolved with the handle the user chose (lines 447-463)
SaveFilePicked(handle) ==
  /\ At("showSaveFilePicker")
  /\ fileHandle' = handle
  /\ idb' = [idb EXCEPT !.handle = handle]
  /\ engineJob' = [engineJob EXCEPT !.pc = "saveViaHandle", !.handle = handle,
                                    !.prompted = TRUE]
  /\ UNCHANGED <<db, isDirty, lastSyncedAt, conflicts, isInitializing, linkedFile,
                 legacyStorage, durableDb, startedFrom, fsAccess, fileLabel,
                 engineResult, lastSave, engineFrame>>

\* the save succeeded: lines 469-478
SyncSaved ==
  /\ At("saveViaHandle") \/ At("saveViaDownload")
  /\ lastSave' = [by |-> engineJob.op,
                  via |-> IF engineJob.pc = "saveViaHandle" THEN "handle" ELSE "download",
                  handle |-> engineJob.handle,
                  prompted |-> engineJob.prompted]
  /\ linkedFile' = IF engineJob.handle = TheHandle THEN engineJob.binary ELSE linkedFile
  /\ isDirty' = FALSE
  /\ lastSyncedAt' = now
  /\ conflicts' = 0
  /\ fileLabel' = engineJob.suggested
  /\ idb' = [idb EXCEPT !.snapshot = engineJob.binary, !.label = engineJob.suggested]
  /\ durableDb' = engineJob.written
  /\ engineJob' = None
  /\ engineResult' = Settled(engineJob.op, "resolved")
  /\ UNCHANGED <<db, isInitializing, fileHandle, legacyStorage, startedFrom, fsAccess,
                 engineFrame>>

\* saveViaHandle threw (the write was refused): the call rejects
SyncFailed ==
  /\ At("saveViaHandle")
  /\ engineJob' = None
  /\ engineResult' = Settled(engineJob.op, "NotAllowedError")
  /\ UNCHANGED <<db, isDirty, lastSyncedAt, conflicts, isInitializing, fileHandle, idb,
                 linkedFile, legacyStorage, durableDb, startedFrom, fsAccess, fileLabel,
                 lastSave, engineFrame>>

\* openDbInteractive and importDbInteractive up to the await of the dialog
\* of pickFileWithFallback (lines 117-120, 143-153)
pickFileWithFallback(op) ==
  /\ engineJob = None
  /\ engineJob' = [op |-> op,
                   pc |-> IF fsAccess THEN "showOpenFilePicker" ELSE "inputPicker"]
  /\ UNCHANGED <<db, isDirty, lastSyncedAt, conflicts, isInitializing, fileHandle, idb,
                 linkedFile, legacyStorage, durableDb, startedFrom, fsAccess, fileLabel,
                 engineResult, lastSave, engineFrame>>

openDbInteractive == pickFileWithFallback("openDbInteractive")

importDbInteractive == pickFileWithFallback("importDbInteractive")

\* the file the user chooses in a dialog: one of another vault
OtherFile == [handle |-> OtherHandle, bytes |-> serializeDbToSqlite(OtherDb)]

\* showOpenFilePicker resolved: the handle is bound and stored, whatever the
\* caller is about to do with the file (lines 132-140)
FilePicked(file) ==
  /\ At("showOpenFilePicker")
  /\ fileHandle' = file.handle
  /\ idb' = [idb EXCEPT !.handle = file.handle]
  /\ engineJob' = [op |-> engineJob.op, pc |-> "loadDbFromFile", file |-> file]
  /\ UNCHANGED <<db, isDirty, lastSyncedAt, conflicts, isInitializing, linkedFile,
                 legacyStorage, durableDb, startedFrom, fsAccess, fileLabel,
                 engineResult, lastSave, engineFrame>>

\* the input element of the fallback fired its change event (lines 148-150)
InputPicked(file) ==
  /\ At("inputPicker")
  /\ engineJob' = [op |-> engineJob.op, pc |-> "loadDbFromFile", file |-> file]
  /\ UNCHANGED <<db, isDirty, lastSyncedAt, conflicts, isInitializing, fileHandle, idb,
                 linkedFile, legacyStorage, durableDb, startedFrom, fsAccess, fileLabel,
                 engineResult, lastSave, engineFrame>>

\* the user dismissed showOpenFilePicker or showSaveFilePicker: the dialog's
\* promise rejects with an AbortError, which nothing on the way up catches
PickerAbandoned ==
  /\ At("showOpenFilePicker") \/ At("showSaveFilePicker")
  /\ engineJob' = None
  /\ engineResult' = Settled(engineJob.op, "AbortError")
  /\ UNCHANGED <<db, isDirty, lastSyncedAt, conflicts, isInitializing, fileHandle, idb,
                 linkedFile, legacyStorage, durableDb, startedFrom, fsAccess, fileLabel,
                 lastSave, engineFrame>>

\* the user dismissed the dialog of the input element: no change event
\* comes and the promise of lines 143-153 is never settled
InputAbandoned ==
  /\ At("inputPicker")
  /\ engineJob' = None
  /\ engineResult' = Settled(engineJob.op, "never settles")
  /\ UNCHANGED <<db, isDirty, lastSyncedAt, conflicts, isInitializing, fileHandle, idb,
                 linkedFile, legacyStorage, durableDb, startedFrom, fsAccess, fileLabel,
                 lastSave, engineFrame>>

\* loadDbFromFile settled: openDbInteractive replaces the database (lines
\* 415-431), importDbInteractive hands the parsed one to mergeImportedDb
FileLoaded ==
  /\ At("loadDbFromFile")
  /\ engineJob' = None
  /\ IF Loadable(engineJob.file.bytes) = {}
     THEN /\ engineResult' = Settled(engineJob.op, "parse error")
          /\ UNCHANGED <<db, isDirty, lastSyncedAt, conflicts, idb, durableDb, fileLabel,
                         imported>>
     ELSE \E loaded \in Loadable(engineJob.file.bytes) :
            /\ engineResult' = Settled(engineJob.op, "resolved")
            /\ IF engineJob.op = "openDbInteractive"
               THEN /\ db' = loaded
                    /\ isDirty' = FALSE
                    /\ lastSyncedAt' = now
                    /\ conflicts' = 0
                    /\ fileLabel' = engineJob.file.handle.handle
                    /\ idb' = [idb EXCEPT !.label = engineJob.file.handle.handle,
                                          !.snapshot = serializeDbToSqlite(loaded)]
                    /\ durableDb' = loaded
                    /\ imported' = imported
               ELSE /\ imported = None
                    /\ imported' = loaded
                    /\ UNCHANGED <<db, isDirty, lastSyncedAt, conflicts, idb, durableDb,
                                   fileLabel>>
  /\ UNCHANGED <<isInitializing, fileHandle, linkedFile, legacyStorage, startedFrom,
                 fsAccess, lastSave, vaultVars, now, mergeCase, codecVars, timerVars,
                 migrVars, bootVars, parked, transferVars>>

\* ------------------------------------------------------- kvDb.ts: auto-sync
\* the delay given to setTimeout (900 ms), in ticks
QuietPeriod == 2

\* window.clearTimeout(id)
ClearTimeoutIgnored(pending, id) == pending

ClearTimeout(pending, id) == {t \in pending : t.id # id}

\* one call of writeSyncFileNow: without a stored handle it returns at once
SyncCall(by) ==
  [by |-> by, at |-> timerClock, version |-> kvVersion, wrote |-> syncHandle,
   lastCall |-> lastScheduleAt]

\* a change of the store by profileStore (kvSet) and the scheduleAutoSync()
\* that follows it
scheduleAutoSync ==
  /\ timerSeq < MaxSchedules
  /\ kvVersion' = kvVersion + 1
  /\ timerSeq' = timerSeq + 1
  /\ timers' = (IF syncTimer # 0 THEN ClearTimeout(timers, syncTimer) ELSE timers)
                 \cup {[id |-> timerSeq + 1, due |-> timerClock + QuietPeriod]}
  /\ syncTimer' = timerSeq + 1
  /\ bursts' = IF syncTimer = 0 THEN bursts + 1 ELSE bursts
  /\ lastScheduleAt' = timerClock
  /\ UNCHANGED <<timerClock, syncHandle, syncCalls, timerFrame>>

\* the browser runs the callback of a timer that is due
TimerFires ==
  \E t \in timers :
    /\ t.due <= timerClock
    /\ Len(syncCalls) < MaxSyncCalls
    /\ timers' = timers \ {t}
    /\ syncTimer' = 0
    /\ syncCalls' = Append(syncCalls, SyncCall("timer"))
    /\ UNCHANGED <<timerClock, timerSeq, kvVersion, syncHandle, bursts, lastScheduleAt,
                   timerFrame>>

\* a caller's own writeSyncFileNow()
writeSyncFileNow ==
  /\ Len(syncCalls) < MaxSyncCalls
  /\ syncCalls' = Append(syncCalls, SyncCall("manual"))
  /\ UNCHANGED <<syncTimer, timers, timerClock, timerSeq, kvVersion, syncHandle, bursts,
                 lastScheduleAt, timerFrame>>

\* pickOrCreateSyncFile: the picked handle is stored, then writeSyncFileNow
pickOrCreateSyncFile ==
  /\ Len(syncCalls) < MaxSyncCalls
  /\ syncHandle' = TRUE
  /\ syncCalls' = Append(syncCalls, [SyncCall("manual") EXCEPT !.wrote = TRUE])
  /\ UNCHANGED <<syncTimer, timers, timerClock, timerSeq, kvVersion, bursts,
                 lastScheduleAt, timerFrame>>

ClockTick ==
  /\ timerClock < MaxTimerClock
  /\ timerClock' = timerClock + 1
  /\ UNCHANGED <<syncTimer, timers, timerSeq, kvVersion, syncHandle, syncCalls, bursts,
                 lastScheduleAt, timerFrame>>

\* ------------------------------------------------------- legacyLocalStorageMigration.ts
\* localStorage as the migrator sees it: the database snapshot and the
\* profiles index found by scanLocalStorage, the payload that
\* pickEncryptedPayloadForProfile finds for each id, whether the legacy key
\* and the keys of the single-profile build exist, the ids whose payload
\* decrypts under the legacy key to at least one transaction, and the key
\* MIGRATION_CSV_BACKUP_DONE_KEY.

\* "legacy-profile", which no other profile has as its id where it is used
LEGACY_SINGLE_PROFILE_ID == 2

\* the payload encryptJsonWithPassphrase gives for the single-profile data
SingleProfilePayload == [PayloadOf("c5") EXCEPT !.scope = "legacy-appkey"]

migrateLegacyLocalStorageIntoDbAsync(target, backups) ==
  LET scan == localStorage
      skipped == [db |-> target, backups |-> backups]
      existingIds == ListIds(target.index.profiles)
  IN IF scan.dbSnapshot # None /\ Len(scan.dbSnapshot.index.profiles) > 0
     THEN IF Len(target.index.profiles) = 0
          THEN [db |-> [target EXCEPT !.createdAt = scan.dbSnapshot.createdAt,
                                      !.updatedAt = scan.dbSnapshot.updatedAt,
                                      !.index = scan.dbSnapshot.index,
                                      !.profileData = scan.dbSnapshot.profileData,
                                      !.ui = scan.dbSnapshot.ui,
                                      !.meta = scan.dbSnapshot.meta],
                backups |-> backups]
          ELSE LET incoming == SelectSeq(scan.dbSnapshot.index.profiles,
                                         LAMBDA p : p.id \notin existingIds)
                   nextProfiles == target.index.profiles \o incoming
                   data == [id \in FileIds |->
                              IF id \in ListIds(incoming)
                              THEN scan.dbSnapshot.profileData[id]
                              ELSE target.profileData[id]]
                   current == target.index.currentProfileId
               IN [db |-> [target EXCEPT
                             !.index.profiles = nextProfiles,
                             !.profileData = data,
                             !.index.currentProfileId =
                                IF current # NoId /\ data[current] = None
                                THEN nextProfiles[1].id ELSE current],
                   backups |-> backups]
     ELSE IF scan.profilesIndex = None \/ Len(scan.profilesIndex.profiles) = 0
     THEN IF Len(target.index.profiles) = 0 /\ scan.single /\ scan.legacyKey
          THEN [db |-> [target EXCEPT
                          !.profileData[LEGACY_SINGLE_PROFILE_ID] = SingleProfilePayload,
                          !.index = [currentProfileId |-> LEGACY_SINGLE_PROFILE_ID,
                                     profiles |-> <<[id |-> LEGACY_SINGLE_PROFILE_ID,
                                                     name |-> "Default",
                                                     createdAt |-> now,
                                                     updatedAt |-> now]>>]],
                backups |-> backups]
          ELSE skipped
     ELSE LET found == SelectSeq(scan.profilesIndex.profiles,
                                 LAMBDA meta : scan.payloads[meta.id] # None)
              added == SelectSeq(found, LAMBDA meta : meta.id \notin existingIds)
              nextProfiles == target.index.profiles \o added
              data == [id \in FileIds |->
                         IF id \in ListIds(added) THEN scan.payloads[id]
                         ELSE target.profileData[id]]
              csv == IF ~scan.backupDone /\ scan.legacyKey
                     THEN SelectSeq(found, LAMBDA meta : meta.id \in scan.csvReady)
                     ELSE <<>>
              current == target.index.currentProfileId
              legacyCurrent == scan.profilesIndex.currentProfileId
          IN IF Len(nextProfiles) = 0 THEN skipped
             ELSE [db |-> [target EXCEPT
                             !.index.profiles = nextProfiles,
                             !.profileData = data,
                             !.index.currentProfileId =
                                IF current = NoId \/ data[current] = None
                                THEN IF legacyCurrent # NoId /\ data[legacyCurrent] # None
                                     THEN legacyCurrent ELSE nextProfiles[1].id
                                ELSE current],
                   backups |-> backups \o [k \in DOMAIN csv |-> csv[k].name]]

\* the passphrases a run hands to encryptJsonWithPassphrase: only the single
\* implicit profile branch encrypts (lines 514-532), with the key
\* getLegacyEncryptionKey returns, which is the environment key of
\* profileSecurity.ts
getLegacyEncryptionKey == LEGACY_FIXED_PASSPHRASE

MigratorEncryptsUnder(target) ==
  LET scan == localStorage
  IN IF scan.dbSnapshot # None /\ Len(scan.dbSnapshot.index.profiles) > 0 THEN {}
     ELSE IF scan.profilesIndex = None \/ Len(scan.profilesIndex.profiles) = 0
     THEN IF Len(target.index.profiles) = 0 /\ scan.single /\ scan.legacyKey
          THEN {getLegacyEncryptionKey}
          ELSE {}
     ELSE {}

\* one call of the asynchronous migrator, run to its end
RunMigratorAsync ==
  /\ LET r == migrateLegacyLocalStorageIntoDbAsync(migrDb, pendingCsvBackups)
     IN /\ Len(r.backups) <= MaxBackups
        /\ migrDb' = r.db
        /\ pendingCsvBackups' = r.backups
  /\ ranOn' = [by |-> "async", storage |-> localStorage]
  /\ UNCHANGED <<localStorage, migrFrame>>

\* one call of the engine's own migrator on the same database
RunMigratorInline ==
  /\ migrDb' = migrateLegacyLocalStorageIntoDb(migrDb).db
  /\ ranOn' = [by |-> "inline", storage |-> localStorage]
  /\ UNCHANGED <<pendingCsvBackups, localStorage, migrFrame>>

downloadPendingLegacyCsvBackups ==
  /\ Len(pendingCsvBackups) > 0
  /\ pendingCsvBackups' = <<>>
  /\ localStorage' = [localStorage EXCEPT !.backupDone = TRUE]
  /\ UNCHANGED <<migrDb, ranOn, migrFrame>>

\* ------------------------------------------------------- calls without a session
NoActiveSession == "No active profile session"

\* the session operations whose bodies are the actions above, and the two
\* getters, which change nothing
GuardedOperations ==
  {"getActiveProfileTransactions", "setActiveProfileTransactions",
   "getActiveProfileConfig", "setActiveProfileConfig", "getNextActiveProfileTxId",
   "renameActiveProfile", "resetActiveProfileData"}

\* if (!activeProfile) throw new Error("No active profile session")
ThrowsNever(ap) == FALSE

ThrowsWithoutSession(ap) == ap = None

\* how a session operation ends before it has done anything: the first
\* statement throws on a null session; past it, the body's first read of
\* activeProfile would fail on one; "" when the body runs
SessionFailure(ap) ==
  IF ThrowsWithoutSession(ap) THEN NoActiveSession
  ELSE IF ap = None THEN "TypeError"
  ELSE ""

\* one of them is called while activeProfile is null
CallWithoutSession(op) ==
  /\ op \in GuardedOperations
  /\ activeProfile = None
  /\ result' = SessionFailure(activeProfile)
  /\ UNCHANGED <<cachedProfilesIndex, cachedPinIndex, activeProfile, kv, legacy, cmd,
                 persists, freeIds, capacity, issued, everIssued, atLogout, now,
                 dbVars, otherVars>>

\* ------------------------------------------------------- verifyActiveProfilePin
SessionPinHash(ap, pin) ==
  IF ap.pinHashVersion = 1 THEN hashPinLegacy(pin) ELSE hashPinForProfile(ap.meta.id, pin)

\* lines 597-603, up to the await of the hash
VerifyPinStart(pin) ==
  /\ cmd = None
  /\ IF SessionFailure(activeProfile) # ""
     THEN /\ result' = SessionFailure(activeProfile)
          /\ cmd' = cmd
     ELSE /\ cmd' = [op |-> "verifyPin", pc |-> "hash",
                     candidateHash |-> SessionPinHash(activeProfile, pin)]
          /\ result' = result
  /\ UNCHANGED <<cachedProfilesIndex, cachedPinIndex, activeProfile, kv, legacy,
                 persists, freeIds, capacity, issued, everIssued, atLogout, now,
                 dbVars, otherVars>>

\* line 605
VerifyPinHashed ==
  /\ cmd # None /\ cmd.op = "verifyPin"
  /\ result' = IF activeProfile = None THEN "TypeError"
               ELSE IF cmd.candidateHash = activeProfile.pinHash THEN "true" ELSE "false"
  /\ cmd' = None
  /\ UNCHANGED <<cachedProfilesIndex, cachedPinIndex, activeProfile, kv, legacy,
                 persists, freeIds, capacity, issued, everIssued, atLogout, now,
                 dbVars, otherVars>>

\* ------------------------------------------------------- changeActiveProfilePin
\* lines 626-632, up to the await of the hash of currentPin
ChangePinStart(currentPin, newPin) ==
  /\ cmd = None
  /\ IF SessionFailure(activeProfile) # ""
     THEN /\ result' = SessionFailure(activeProfile)
          /\ cmd' = cmd
     ELSE /\ cmd' = [op |-> "changePin", pc |-> "hash", currentPin |-> currentPin,
                     currentHash |-> SessionPinHash(activeProfile, currentPin),
                     newPin |-> newPin]
          /\ result' = result
  /\ UNCHANGED <<cachedProfilesIndex, cachedPinIndex, activeProfile, kv, legacy,
                 persists, freeIds, capacity, issued, everIssued, atLogout, now,
                 dbVars, otherVars>>

CurrentPinUnchecked(currentHash, ap) == TRUE

CurrentPinAccepted(currentHash, ap) == currentHash = ap.pinHash

\* lines 633-645: the hashes resolved
ChangePinHashed ==
  /\ cmd # None /\ cmd.op = "changePin"
  /\ Len(persists) < capacity
  /\ cmd' = None
  /\ IF activeProfile = None
     THEN /\ result' = "TypeError"
          /\ UNCHANGED <<activeProfile, cachedPinIndex, kv, persists>>
     ELSE IF ~CurrentPinAccepted(cmd.currentHash, activeProfile)
     THEN /\ result' = "Invalid current PIN"
          /\ UNCHANGED <<activeProfile, cachedPinIndex, kv, persists>>
     ELSE LET newHash == hashPinForProfile(activeProfile.meta.id, cmd.newPin)
              ap == [activeProfile EXCEPT !.pin = cmd.newPin, !.pinHashVersion = 2,
                                          !.pinHash = newHash]
              pinIndex == [cachedPinIndex EXCEPT ![ap.meta.id] = [v |-> 2, hash |-> newHash]]
          IN /\ activeProfile' = ap
             /\ cachedPinIndex' = pinIndex
             /\ kv' = [kv EXCEPT !.pinIndex = pinIndex]
             /\ persists' = StartPersist(persists, ap)
             /\ result' = "pin changed"
  /\ UNCHANGED <<cachedProfilesIndex, legacy, freeIds, capacity, issued, everIssued,
                 atLogout, now, dbVars, otherVars>>

\* ------------------------------------------------------- deleteActiveProfile
NextCurrentIdKept(remainingProfiles, current) == current

NextCurrentId(remainingProfiles, current) ==
  IF Len(remainingProfiles) > 0 THEN remainingProfiles[1].id ELSE NoId

\* kvDel is issued after every store request made before it, and the store
\* handles the requests in that order
deleteActiveProfile ==
  /\ IF SessionFailure(activeProfile) # ""
     THEN /\ result' = SessionFailure(activeProfile)
          /\ UNCHANGED <<cachedProfilesIndex, cachedPinIndex, activeProfile, kv, persists,
                         issued, atLogout, deleted>>
     ELSE LET idToDelete == activeProfile.meta.id
              pinIndex == [cachedPinIndex EXCEPT ![idToDelete] = None]
              remainingProfiles ==
                SelectSeq(cachedProfilesIndex.profiles, LAMBDA p : p.id # idToDelete)
              index == [currentProfileId |->
                          NextCurrentId(remainingProfiles, cachedProfilesIndex.currentProfileId),
                        profiles |-> remainingProfiles]
          IN /\ kv' = [kv EXCEPT !.data[idToDelete] = None, !.pinIndex = pinIndex,
                                 !.index = index]
             /\ cachedPinIndex' = pinIndex
             /\ cachedProfilesIndex' = index
             /\ activeProfile' = None
             /\ persists' = EndSession(Dropped(persists))
             /\ issued' = <<>>
             /\ atLogout' = None
             /\ deleted' = deleted \cup {idToDelete}
             /\ result' = "deleted"
  /\ UNCHANGED <<legacy, cmd, freeIds, capacity, everIssued, now, dbVars,
                 codecVars, engineVars, timerVars, migrVars,
                 lsProfiles, boot, legacyKeyConfigured, parked, transferVars>>

\* ------------------------------------------------------- initProfileStore
\* validateProfilesIndex: an absent or malformed value gives the empty index,
\* entries without an id are dropped
validateProfilesIndex(value) ==
  IF value = None THEN EmptyIndex
  ELSE [currentProfileId |-> value.currentProfileId,
        profiles |-> SelectSeq(value.profiles, LAMBDA p : p.id # NoId)]

validatePinIndex(value) == IF value = None THEN [p \in ProfileIds |-> None] ELSE value

hasLegacyProfileStorage ==
  \/ lsProfiles.index # None
  \/ lsProfiles.pinIndex # None
  \/ \E p \in ProfileIds : lsProfiles.data[p] # None

AtBoot(pc) == boot.pc = pc

BootFrame == <<activeProfile, legacy, cmd, persists, freeIds, capacity, result, issued,
               everIssued, atLogout, now, dbVars, codecVars, engineVars, timerVars,
               migrVars, legacyKeyConfigured, deleted, parked, transferVars>>

\* lines 304-311: no index in the store and profile keys in localStorage
\* start the migration
initProfileStore ==
  /\ AtBoot("start")
  /\ boot' = IF kv.index = None /\ hasLegacyProfileStorage
             THEN [pc |-> "index", k |-> 0]
             ELSE [pc |-> "load", k |-> 0]
  /\ UNCHANGED <<cachedProfilesIndex, cachedPinIndex, kv, lsProfiles, BootFrame>>

\* lines 279-283
SafeIndex == validateProfilesIndex(lsProfiles.index)

\* line 285
MigrateIndex ==
  /\ AtBoot("index")
  /\ kv' = [kv EXCEPT !.index = SafeIndex]
  /\ boot' = [pc |-> "pinIndex", k |-> 0]
  /\ UNCHANGED <<cachedProfilesIndex, cachedPinIndex, lsProfiles, BootFrame>>

\* line 286
MigratePinIndex ==
  /\ AtBoot("pinIndex")
  /\ kv' = [kv EXCEPT !.pinIndex = validatePinIndex(lsProfiles.pinIndex)]
  /\ boot' = [pc |-> "data", k |-> 1]
  /\ UNCHANGED <<cachedProfilesIndex, cachedPinIndex, lsProfiles, BootFrame>>

\* lines 288-294: the payload of the k-th listed profile, when there is one
MigrateProfileData ==
  /\ AtBoot("data")
  /\ boot.k <= Len(SafeIndex.profiles)
  /\ LET id == SafeIndex.profiles[boot.k].id
         encrypted == lsProfiles.data[id]
     IN kv' = IF encrypted # None THEN [kv EXCEPT !.data[id] = encrypted] ELSE kv
  /\ boot' = [pc |-> "data", k |-> boot.k + 1]
  /\ UNCHANGED <<cachedProfilesIndex, cachedPinIndex, lsProfiles, BootFrame>>

\* lines 296-301: every kvSet resolved, the migrated keys are removed
RemoveMigratedKeys ==
  /\ AtBoot("data")
  /\ boot.k > Len(SafeIndex.profiles)
  /\ lsProfiles' = [index |-> None, pinIndex |-> None,
                    data |-> [p \in ProfileIds |->
                               IF p \in {SafeIndex.profiles[i].id : i \in DOMAIN SafeIndex.profiles}
                               THEN None ELSE lsProfiles.data[p]]]
  /\ boot' = [pc |-> "load", k |-> 0]
  /\ UNCHANGED <<cachedProfilesIndex, cachedPinIndex, kv, BootFrame>>

\* a kvSet of the migration is rejected: the request it made wrote nothing,
\* migrateLegacyProfilesToDb and initProfileStore throw
MigrationFails ==
  /\ \/ AtBoot("index")
     \/ AtBoot("pinIndex")
     \/ /\ AtBoot("data")
        /\ boot.k <= Len(SafeIndex.profiles)
        /\ lsProfiles.data[SafeIndex.profiles[boot.k].id] # None
  /\ boot' = [pc |-> "failed", k |-> 0]
  /\ UNCHANGED <<cachedProfilesIndex, cachedPinIndex, kv, lsProfiles, BootFrame>>

\* lines 314-320
LoadCaches ==
  /\ AtBoot("load")
  /\ cachedProfilesIndex' = validateProfilesIndex(kv.index)
  /\ cachedPinIndex' = validatePinIndex(kv.pinIndex)
  /\ boot' = [pc |-> "done", k |-> 0]
  /\ UNCHANGED <<kv, lsProfiles, BootFrame>>

\* ------------------------------------------------------- specifications
CreateInitialOps ==
  \/ \E name \in {"Alice", ""} : CreateInitialStart(name, "1234")
  \/ CreateInitialHashed

CreateAdditionalOps ==
  \/ \E pin \in Pins : CreateAdditionalStart("Bob", pin)
  \/ CreateAdditionalEncrypted
  \/ CreateAdditionalFinish

LoginOps ==
  \/ \E profileId \in ProfileIds, pin \in Pins : LoginStart(profileId, pin)
  \/ LoginVerify
  \/ LoginDecrypted
  \/ LoginUpgraded

TxOps ==
  \/ \E items \in SUBSET TxIds :
        /\ activeProfile # None
        /\ items \subseteq activeProfile.data.transactions \cup Range(issued)
        /\ items # activeProfile.data.transactions
        /\ setActiveProfileTransactions(items)
  \/ getNextActiveProfileTxId

EditOps ==
  \/ \E config \in Configs : setActiveProfileConfig(config)
  \/ \E name \in Names : renameActiveProfile(name)

PersistOps ==
  \/ \E i \in DOMAIN persists : PersistSerialize(i)
  \/ \E i \in DOMAIN persists : PersistEncrypted(i)
  \/ \E i \in DOMAIN persists : PersistStored(i)

Next ==
  \/ CreateInitialOps
  \/ CreateAdditionalOps
  \/ LoginOps
  \/ TxOps
  \/ EditOps
  \/ resetActiveProfileData
  \/ logoutActiveProfileSession
  \/ PersistOps
  \/ Tick

Spec == Init /\ [][Next]_vars

\* One profile of a fresh install whose caller lets a persist finish before
\* it mutates the session again: ids are drawn and transactions added and
\* deleted, across logout and login.
InitOneProfile ==
  InitVaultFresh /\ InitVault /\ now = 1 /\ InitDbIdle /\ InitOtherIdle /\ freeIds = <<1>> /\ capacity = 1

NextTxIds ==
  \/ CreateInitialOps
  \/ TxOps
  \/ logoutActiveProfileSession
  \/ PersistOps
  \/ LoginStart(1, "1234")
  \/ LoginVerify
  \/ LoginDecrypted

SpecTxIds == InitOneProfile /\ [][NextTxIds]_vars

\* The same profile with resetActiveProfileData as well.
NextVault ==
  \/ CreateInitialOps
  \/ TxOps
  \/ resetActiveProfileData
  \/ logoutActiveProfileSession
  \/ PersistOps
  \/ LoginStart(1, "1234")
  \/ LoginVerify
  \/ LoginDecrypted

SpecVault == InitOneProfile /\ [][NextVault]_vars

\* Several profiles, right and wrong PINs, possibly a profile left by an
\* older build.
InitSessions ==
  Init /\ legacy = NoLegacy /\ capacity = 1 /\ Len(freeIds) = MaxProfiles - Len(cachedProfilesIndex.profiles)

NextSessions ==
  \/ CreateInitialStart("Alice", "1234")
  \/ CreateInitialHashed
  \/ CreateAdditionalStart("Bob", "9999")
  \/ CreateAdditionalEncrypted
  \/ CreateAdditionalFinish
  \/ LoginOps
  \/ setActiveProfileConfig("cfgUser")
  \/ logoutActiveProfileSession
  \/ PersistOps
  \/ Tick

SpecSessions == InitSessions /\ [][NextSessions]_vars

\* One session whose mutators are called without awaiting their persists.
InitPersist ==
  InitVaultFresh /\ InitVault /\ now = 1 /\ InitDbIdle /\ InitOtherIdle /\ freeIds = <<1>>
    /\ capacity = MaxInFlight

NextPersist ==
  \/ CreateInitialOps
  \/ TxOps
  \/ EditOps
  \/ resetActiveProfileData
  \/ PersistOps

SpecPersist == InitPersist /\ [][NextPersist]_vars

\* The sync engine: files are imported into the loaded database one after
\* the other.
InitMerge ==
  /\ InitVaultFresh /\ InitVault /\ legacy = NoLegacy /\ freeIds = <<1>> /\ capacity = 1
  /\ now = 1
  /\ InitDbIdle /\ InitOtherIdle

NextMerge ==
  \/ \E file \in FileSet : ImportFilePicked(file)
  \/ mergeImportedDb

SpecMerge == InitMerge /\ [][NextMerge]_vars

\* The storage codecs, each applied once to one input.
InitCodec ==
  /\ InitVaultFresh /\ InitVault /\ legacy = NoLegacy /\ freeIds = <<1>> /\ capacity = 1
  /\ now = 1
  /\ InitDbIdle /\ InitOtherIdle

NextCodec ==
  \/ DeserializeSqlite
  \/ DeserializeJson
  \/ DeserializeJsonDefensive
  \/ SqliteRoundTrip

SpecCodec == InitCodec /\ [][NextCodec]_vars

\* The engine from page load on: what IndexedDB, the linked file and
\* localStorage hold is whatever an earlier visit left.
InitEngine ==
  /\ InitVaultFresh /\ InitVault /\ legacy = NoLegacy /\ freeIds = <<1>> /\ capacity = 1
  /\ now = 1
  /\ InitDbIdle /\ InitCodecIdle /\ InitTimerIdle /\ InitMigrIdle /\ InitBootIdle
  /\ isInitializing = FALSE
  /\ fileHandle = None
  /\ fsAccess = TRUE
  /\ idb \in [handle : {None, TheHandle},
              snapshot : {None, NotADatabase, serializeDbToSqlite(SnapshotDb)},
              label : {""}]
  /\ linkedFile \in {NotADatabase, serializeDbToSqlite(LinkedDb)}
  /\ legacyStorage \in {None, LegacyProfiles}
  /\ engineJob = None
  /\ durableDb = None
  /\ startedFrom = "none"
  /\ fileLabel = ""
  /\ engineResult = None
  /\ lastSave = None

NextEngine ==
  \/ initDbAuto
  \/ tryRestoreHandle
  \/ tryLoadFromSnapshot
  \/ tryLoadFromHandle
  \/ InitCreateAndMigrate
  \/ InitSnapshotStored
  \/ markDbDirty
  \/ syncDbNow
  \/ SyncSaved
  \/ SyncFailed
  \/ createNewDbInteractive
  \/ SaveFilePicked(TheHandle)
  \/ openDbInteractive
  \/ db # None /\ db.meta.revision < MaxRevision /\ importDbInteractive
  \/ FilePicked(OtherFile)
  \/ FileLoaded
  \/ mergeImportedDb

SpecEngine == InitEngine /\ [][NextEngine]_vars

\* The store is changed in bursts while time passes; the sync file may or
\* may not have been chosen yet.
InitAutoSync ==
  /\ InitVaultFresh /\ InitVault /\ legacy = NoLegacy /\ freeIds = <<1>> /\ capacity = 1
  /\ now = 1
  /\ InitDbIdle /\ InitCodecIdle /\ InitEngineIdle /\ InitMigrIdle /\ InitBootIdle
  /\ syncTimer = 0
  /\ timers = {}
  /\ timerClock = 0
  /\ timerSeq = 0
  /\ kvVersion = 0
  /\ syncHandle \in BOOLEAN
  /\ syncCalls = <<>>
  /\ bursts = 0
  /\ lastScheduleAt = 0

NextAutoSync ==
  \/ scheduleAutoSync
  \/ TimerFires
  \/ writeSyncFileNow
  \/ pickOrCreateSyncFile
  \/ ClockTick

SpecAutoSync == InitAutoSync /\ [][NextAutoSync]_vars

\* The legacy migrators, run again and again on a database that is empty or
\* holds a profile already.
AliceNoPayloadDb == [SnapshotDb EXCEPT !.profileData = [id \in FileIds |-> None]]
\* a snapshot left in localStorage: two profiles, the current one without
\* a payload
LegacySnapshotDb ==
  [SnapshotDb EXCEPT !.index = [currentProfileId |-> 2,
                                profiles |-> <<AliceRow(1), BobRow>>],
                     !.meta.revision = 2]

InitMigrate ==
  /\ InitVaultFresh /\ InitVault /\ legacy = NoLegacy /\ freeIds = <<1>> /\ capacity = 1
  /\ now = 1
  /\ InitDbIdle /\ InitCodecIdle /\ InitTimerIdle /\ InitBootIdle
  /\ isInitializing = FALSE /\ fileHandle = None
  /\ idb = [handle |-> None, snapshot |-> None, label |-> ""]
  /\ linkedFile = None /\ engineJob = None /\ durableDb = None /\ startedFrom = "none"
  /\ fsAccess = TRUE /\ fileLabel = "" /\ engineResult = None /\ lastSave = None
  /\ migrDb \in {createEmptyDb(1, "en"), SnapshotDb, AliceNoPayloadDb}
  /\ pendingCsvBackups = <<>>
  /\ ranOn = None
  /\ localStorage \in
       [dbSnapshot : {None, LegacySnapshotDb},
        profilesIndex : {None, LegacyProfiles.index},
        payloads : {[id \in FileIds |-> None], LegacyProfiles.data},
        legacyKey : BOOLEAN,
        single : BOOLEAN,
        singleTx : BOOLEAN,
        csvReady : SUBSET {1, 2},
        backupDone : BOOLEAN]
  /\ localStorage.profilesIndex = None => localStorage.payloads = [id \in FileIds |-> None]
  \* csvReady: the profiles whose payload the legacy key decrypts to at least
  \* one transaction, Alice's in the snapshot and Bob's under his own key;
  \* singleTx: the transactions key of the single-profile scheme holds one
  /\ 1 \in localStorage.csvReady => localStorage.dbSnapshot # None /\ localStorage.legacyKey
  /\ 2 \in localStorage.csvReady => localStorage.payloads[2] # None /\ localStorage.legacyKey
  /\ localStorage.singleTx => localStorage.single
  /\ legacyStorage = IF localStorage.profilesIndex = None THEN None
                     ELSE [index |-> localStorage.profilesIndex,
                           data |-> localStorage.payloads]

NextMigrate ==
  \/ RunMigratorAsync
  \/ RunMigratorInline
  \/ downloadPendingLegacyCsvBackups

SpecMigrate == InitMigrate /\ [][NextMigrate]_vars

\* A browser an older build has used: the keys of the single-profile scheme,
\* the profile keys of the first multi-profile builds, or both, and an empty
\* store.  initProfileStore runs, then the first profile is created.
LsIndexes ==
  {None, [currentProfileId |-> 1, profiles |-> <<OldProfileMeta>>]}

LsPinIndexes ==
  {None, [p \in ProfileIds |->
            IF p = 1 THEN [v |-> 1, hash |-> hashPinLegacy("1234")] ELSE None]}

LsData ==
  {[p \in ProfileIds |-> None],
   [p \in ProfileIds |->
      IF p = 1 THEN encryptJsonWithPassphrase(OldProfileData, LEGACY_FIXED_PASSPHRASE)
      ELSE None]}

InitBoot ==
  /\ cachedProfilesIndex = EmptyIndex
  /\ cachedPinIndex = [p \in ProfileIds |-> None]
  /\ kv = EmptyKv
  /\ legacy \in LegacyStates
  /\ freeIds = <<2>>
  /\ capacity = 1 /\ activeProfile = None /\ cmd = None /\ persists = <<>>
  /\ result = "none" /\ issued = <<>> /\ everIssued = [p \in ProfileIds |-> 0]
  /\ atLogout = None
  /\ now = 1
  /\ InitDbIdle /\ InitCodecIdle /\ InitEngineIdle /\ InitTimerIdle /\ InitMigrIdle
  /\ lsProfiles \in [index : LsIndexes, pinIndex : LsPinIndexes, data : LsData]
  /\ boot = [pc |-> "start", k |-> 0]
  /\ legacyKeyConfigured = TRUE
  /\ deleted = {}
  /\ InitTransferIdle

NextBoot ==
  \/ initProfileStore
  \/ MigrateIndex
  \/ MigratePinIndex
  \/ MigrateProfileData
  \/ RemoveMigratedKeys
  \/ MigrationFails
  \/ LoadCaches
  \/ AtBoot("done") /\ CreateInitialStart("Alice", "1234")
  \/ CreateInitialHashed
  \/ logoutActiveProfileSession
  \/ PersistOps

SpecBoot == InitBoot /\ [][NextBoot]_vars

\* ------------------------------------------------- profileSecurity.ts, as text
\* The template strings of lines 47 and 52, character by character: ids and
\* PINs are strings over an alphabet that has the separator ":" in it, the
\* fixed prefixes are kept as one symbol each.
TextAlphabet == {"a", ":"}

Texts(minLen) == UNION {[1..n -> TextAlphabet] : n \in minLen..MaxTextLen}

\* sha256Hex: no two inputs within the bounds share a digest
sha256Hex(input) == [sha256 |-> input]

PinHashText(profileId, pin) ==
  sha256Hex(<<"traeky:pin-hash:v2:">> \o profileId \o <<":">> \o pin)

ProfilePassphraseTextUnscoped(profileId, pin) ==
  <<"traeky:profile-encryption:v2:">> \o <<":">> \o pin

ProfilePassphraseText(profileId, pin) ==
  <<"traeky:profile-encryption:v2:">> \o profileId \o <<":">> \o pin

\* encryptProfilePayload for profile a, decryptProfilePayload for profile b,
\* the two PIN hashes and the two passphrases, for one PIN
deriveForTwoProfiles ==
  \E a \in Texts(1), b \in Texts(1), pin \in Texts(0) :
    LET encrypted == encryptJsonWithPassphrase(createEmptyProfileData, ProfilePassphraseText(a, pin))
    IN CodecApplied("deriveForTwoProfiles", [a |-> a, b |-> b, pin |-> pin],
                    [passA |-> ProfilePassphraseText(a, pin),
                     passB |-> ProfilePassphraseText(b, pin),
                     hashA |-> PinHashText(a, pin),
                     hashB |-> PinHashText(b, pin),
                     opened |-> decryptJsonWithPassphrase(
                                  encrypted, ProfilePassphraseText(b, pin))])

NextDerive == deriveForTwoProfiles

SpecDerive == InitCodec /\ [][NextDerive]_vars

\* A profile an older build left (v1 PIN hash, payload under the fixed key),
\* on a build with or without the legacy key: logins with the right and a
\* wrong PIN, edits and logouts.
InitUpgrade ==
  /\ InitVaultOld /\ InitVault /\ capacity = 1
  /\ now = 1
  /\ InitDbIdle /\ InitCodecIdle /\ InitEngineIdle /\ InitTimerIdle /\ InitMigrIdle
  /\ lsProfiles = NoLsProfiles
  /\ boot = [pc |-> "done", k |-> 0]
  /\ legacyKeyConfigured \in BOOLEAN
  /\ deleted = {}
  /\ InitTransferIdle

NextUpgrade ==
  \/ \E pin \in Pins : LoginStart(1, pin)
  \/ LoginVerify
  \/ LoginDecrypted
  \/ LoginUpgraded
  \/ EditOps
  \/ logoutActiveProfileSession
  \/ PersistOps
  \/ Tick

SpecUpgrade == InitUpgrade /\ [][NextUpgrade]_vars

\* Two profiles of a fresh install: sessions are started, ended and deleted,
\* and the session operations are called while there is none.
InitNoSession ==
  /\ InitVaultFresh /\ InitVault /\ legacy = NoLegacy /\ capacity = 1
  /\ freeIds = [i \in 1..MaxProfiles |-> i]
  /\ now = 1
  /\ InitDbIdle /\ InitOtherIdle

NextNoSession ==
  \/ CreateInitialStart("Alice", "1234")
  \/ CreateInitialHashed
  \/ CreateAdditionalStart("Bob", "1234")
  \/ CreateAdditionalEncrypted
  \/ CreateAdditionalFinish
  \/ \E profileId \in ProfileIds : LoginStart(profileId, "1234")
  \/ LoginVerify
  \/ LoginDecrypted
  \/ setActiveProfileConfig("cfgUser")
  \/ logoutActiveProfileSession
  \/ deleteActiveProfile
  \/ \E op \in GuardedOperations : CallWithoutSession(op)
  \/ activeProfile = None /\ VerifyPinStart("1234")
  \/ activeProfile = None /\ ChangePinStart("1234", "9999")
  \/ PersistOps

SpecNoSession == InitNoSession /\ [][NextNoSession]_vars

\* One session whose PIN is changed, with the right and with a wrong current
\* PIN, while edits are persisted; the session is ended and started again
\* with either PIN.
InitPinChange ==
  /\ InitVaultFresh /\ InitVault /\ legacy = NoLegacy /\ freeIds = <<1>>
  /\ now = 1
  /\ InitDbIdle /\ InitOtherIdle

NextPinChange ==
  \/ CreateInitialStart("Alice", "1234")
  \/ CreateInitialHashed
  \/ setActiveProfileConfig("cfgUser")
  \/ \E currentPin \in Pins : ChangePinStart(currentPin, "9999")
  \/ ChangePinHashed
  \/ \E pin \in Pins : VerifyPinStart(pin)
  \/ VerifyPinHashed
  \/ logoutActiveProfileSession
  \/ \E pin \in Pins : LoginStart(1, pin)
  \/ LoginVerify
  \/ LoginDecrypted
  \/ PersistOps

SpecPinChange == InitPinChange /\ [][NextPinChange]_vars

\* Page load in a browser with and without the File System Access API: the
\* file behind the stored handle may be gone, initDbAuto may be called again
\* at any time, and the database is saved afterwards.
InitStartup ==
  /\ InitVaultFresh /\ InitVault /\ legacy = NoLegacy /\ freeIds = <<1>> /\ capacity = 1
  /\ now = 1
  /\ InitDbIdle /\ InitCodecIdle /\ InitTimerIdle /\ InitMigrIdle /\ InitBootIdle
  /\ isInitializing = FALSE
  /\ fileHandle = None
  /\ fsAccess \in BOOLEAN
  /\ idb \in [handle : IF fsAccess THEN {None, TheHandle} ELSE {None},
              snapshot : {None, NotADatabase, serializeDbToSqlite(SnapshotDb)},
              label : {"", DefaultLabel}]
  /\ linkedFile \in {None, NotADatabase, serializeDbToSqlite(LinkedDb)}
  /\ legacyStorage \in {None, LegacyProfiles}
  /\ engineJob = None
  /\ durableDb = None
  /\ startedFrom = "none"
  /\ fileLabel = ""
  /\ engineResult = None
  /\ lastSave = None

NextStartup ==
  \/ initDbAuto
  \/ initDbAutoAgain
  \/ tryRestoreHandle
  \/ tryLoadFromSnapshot
  \/ tryLoadFromHandle
  \/ InitCreateAndMigrate
  \/ InitSnapshotStored
  \/ syncDbNow
  \/ SaveFilePicked(OtherHandle)
  \/ PickerAbandoned
  \/ SyncSaved
  \/ SyncFailed

SpecStartup == InitStartup /\ [][NextStartup]_vars

\* The engine's dialogs in a browser with and without the File System Access
\* API, on a page that has not loaded a database yet: every dialog can be
\* completed or dismissed.
InitDialogs ==
  /\ InitVaultFresh /\ InitVault /\ legacy = NoLegacy /\ freeIds = <<1>> /\ capacity = 1
  /\ now = 1
  /\ InitDbIdle /\ InitCodecIdle /\ InitTimerIdle /\ InitMigrIdle /\ InitBootIdle
  /\ isInitializing = FALSE
  /\ fileHandle = None
  /\ fsAccess \in BOOLEAN
  /\ idb = [handle |-> None, snapshot |-> None, label |-> ""]
  /\ linkedFile = serializeDbToSqlite(LinkedDb)
  /\ legacyStorage = None
  /\ engineJob = None
  /\ durableDb = None
  /\ startedFrom = "none"
  /\ fileLabel = ""
  /\ engineResult = None
  /\ lastSave = None

NextDialogs ==
  \/ syncDbNow
  \/ createNewDbInteractive
  \/ \E handle \in {TheHandle, OtherHandle} : SaveFilePicked(handle)
  \/ SyncSaved
  \/ SyncFailed
  \/ openDbInteractive
  \/ db # None /\ db.meta.revision < MaxRevision /\ importDbInteractive
  \/ FilePicked(OtherFile)
  \/ InputPicked(OtherFile)
  \/ PickerAbandoned
  \/ InputAbandoned
  \/ FileLoaded
  \/ mergeImportedDb

SpecDialogs == InitDialogs /\ [][NextDialogs]_vars

\* Calls of profileStore made without awaiting one another: while one call
\* waits at an await the event loop runs another up to its next await.
\* Park suspends the running call, Resume continues the suspended one.
Park ==
  /\ cmd # None /\ parked = None
  /\ parked' = cmd
  /\ cmd' = None
  /\ UNCHANGED <<cachedProfilesIndex, cachedPinIndex, activeProfile, kv, legacy, persists,
                 freeIds, capacity, result, issued, everIssued, atLogout, now, dbVars,
                 codecVars, engineVars, timerVars, migrVars, bootVars, transferVars>>

Resume ==
  /\ cmd = None /\ parked # None
  /\ cmd' = parked
  /\ parked' = None
  /\ UNCHANGED <<cachedProfilesIndex, cachedPinIndex, activeProfile, kv, legacy, persists,
                 freeIds, capacity, result, issued, everIssued, atLogout, now, dbVars,
                 codecVars, engineVars, timerVars, migrVars, bootVars, transferVars>>

InitInterleave ==
  /\ InitVaultFresh /\ InitVault /\ legacy = NoLegacy /\ capacity = 1
  /\ Len(freeIds) = MaxProfiles
  /\ now = 1
  /\ InitDbIdle /\ InitOtherIdle

NextInterleave ==
  \/ CreateInitialStart("Alice", "1234")
  \/ CreateInitialHashed
  \/ CreateAdditionalStart("Bob", "9999")
  \/ CreateAdditionalEncrypted
  \/ CreateAdditionalFinish
  \/ \E profileId \in ProfileIds, pin \in Pins : LoginStart(profileId, pin)
  \/ LoginVerify
  \/ LoginDecrypted
  \/ PersistOps
  \/ Park
  \/ Resume

SpecInterleave == InitInterleave /\ [][NextInterleave]_vars

\* ------------------------------------------------------- kvDb.ts: the sync file
\* (the second file of kvDb.ts, from its line 64 on)
\* The keys of the store: a key is its prefix up to the first colon, the rest
\* of its name and, for a profile's payload, the profile id.  The store is a
\* function from the keys it holds to their values; kv, lastWrite and
\* syncHandle are that function split by key.
Key(name, id) == [ns |-> "traeky:", name |-> name, id |-> id]

LS_PROFILES_INDEX_KEY == Key("profiles:index", NoId)

PROFILE_PIN_INDEX_KEY == Key("profiles-pin-index", NoId)

buildProfileDataKey(id) == Key("profile:", id)

SYNC_FILE_HANDLE_KEY == Key("sync:fileHandle", NoId)

DB_LAST_WRITE_KEY == Key("db:lastWrite", NoId)

isKeyExportableNoPins(key) ==
  key.ns = "traeky:" /\ key # SYNC_FILE_HANDLE_KEY /\ key # PROFILE_PIN_INDEX_KEY

isKeyExportable(key) == key.ns = "traeky:" /\ key # SYNC_FILE_HANDLE_KEY

\* the index and the PIN index are written together, so they are present
\* together
StoreKeys(k, lw, handle) ==
  (IF k.index # None THEN {LS_PROFILES_INDEX_KEY, PROFILE_PIN_INDEX_KEY} ELSE {})
    \cup {buildProfileDataKey(p) : p \in {q \in ProfileIds : k.data[q] # None}}
    \cup (IF lw # 0 THEN {DB_LAST_WRITE_KEY} ELSE {})
    \cup (IF handle THEN {SYNC_FILE_HANDLE_KEY} ELSE {})

kvGetAll(k, lw, handle) ==
  [key \in StoreKeys(k, lw, handle) |->
     IF key = LS_PROFILES_INDEX_KEY THEN k.index
     ELSE IF key = PROFILE_PIN_INDEX_KEY THEN k.pinIndex
     ELSE IF key = DB_LAST_WRITE_KEY THEN lw
     ELSE IF key = SYNC_FILE_HANDLE_KEY THEN handle
     ELSE k.data[key.id]]

\* the three variables a store function stands for
KvOf(store) ==
  [index |-> IF LS_PROFILES_INDEX_KEY \in DOMAIN store
             THEN store[LS_PROFILES_INDEX_KEY] ELSE None,
   pinIndex |-> IF PROFILE_PIN_INDEX_KEY \in DOMAIN store
                THEN store[PROFILE_PIN_INDEX_KEY] ELSE [p \in ProfileIds |-> None],
   data |-> [p \in ProfileIds |->
               IF buildProfileDataKey(p) \in DOMAIN store
               THEN store[buildProfileDataKey(p)] ELSE None]]

LastWriteOf(store) ==
  IF DB_LAST_WRITE_KEY \in DOMAIN store THEN store[DB_LAST_WRITE_KEY] ELSE 0

HandleOf(store) ==
  IF SYNC_FILE_HANDLE_KEY \in DOMAIN store THEN store[SYNC_FILE_HANDLE_KEY] ELSE FALSE

\* JSON.stringify(payload) of exportTraekyDbToJson, as the object it encodes;
\* lastWrite 0 is null
exportTraekyDbToJson(k, lw, handle) ==
  LET all == kvGetAll(k, lw, handle)
  IN [magic |-> "traeky.db", version |-> 1, lastWrite |-> lw,
      kv |-> [key \in {x \in DOMAIN all : isKeyExportable(x)} |-> all[key]]]

\* handle.getFile() throws; a text that is no JSON is NotJson
FileGone == [gone |-> TRUE]

\* JSON.parse gives an object with the fields of TraekyDbFileFormatV1, kv
\* possibly missing
IsDbFileObject(file) == {"magic", "version", "lastWrite"} \subseteq DOMAIN file

\* line 152
FormatAccepted(parsed) ==
  parsed.magic = "traeky.db" /\ parsed.version = 1 /\ "kv" \in DOMAIN parsed

\* lines 156-162: the loop of kvSet calls
ImportKeys(store, fileKv) ==
  [key \in DOMAIN store \cup {x \in DOMAIN fileKv : isKeyExportable(x)} |->
     IF key \in DOMAIN fileKv /\ isKeyExportable(key) THEN fileKv[key] ELSE store[key]]

IncomingIsNewerOrEqual(incomingLastWrite, existingLastWrite) ==
  existingLastWrite = 0
    \/ (incomingLastWrite # 0 /\ incomingLastWrite >= existingLastWrite)

\* lines 167 and 225
IncomingIsNewer(incomingLastWrite, existingLastWrite) ==
  existingLastWrite = 0
    \/ (incomingLastWrite # 0 /\ incomingLastWrite > existingLastWrite)

\* lines 156-169 for a file the format check let through
ImportedStore(store, parsed, at) ==
  LET set == ImportKeys(store, parsed.kv)
      incomingLastWrite == parsed.lastWrite
      existingLastWrite == LastWriteOf(set)
  IN IF IncomingIsNewer(incomingLastWrite, existingLastWrite)
     THEN [key \in DOMAIN set \cup {DB_LAST_WRITE_KEY} |->
             IF key = DB_LAST_WRITE_KEY
             THEN (IF incomingLastWrite # 0 THEN incomingLastWrite ELSE at)
             ELSE set[key]]
     ELSE set

KvOutcome(op, value) == [op |-> op, value |-> value]

StoreBecomes(store) ==
  /\ kv' = KvOf(store)
  /\ lastWrite' = LastWriteOf(store)
  /\ syncHandle' = HandleOf(store)

TransferFrame ==
  <<cachedProfilesIndex, cachedPinIndex, activeProfile, legacy, cmd, persists, freeIds,
    capacity, result, issued, everIssued, atLogout, now, dbVars, codecVars, engineVars,
    syncTimer, timers, timerClock, timerSeq, kvVersion, syncCalls, bursts, lastScheduleAt,
    migrVars, bootVars, parked, replica>>

importTraekyDbFromJson(file) ==
  /\ IF ~IsDbFileObject(file)
     THEN /\ kvResult' = KvOutcome("importTraekyDbFromJson", "SyntaxError")
          /\ UNCHANGED <<kv, lastWrite, syncHandle>>
     ELSE IF ~FormatAccepted(file)
     THEN /\ kvResult' = KvOutcome("importTraekyDbFromJson",
                                   "Unsupported traeky.db file format")
          /\ UNCHANGED <<kv, lastWrite, syncHandle>>
     ELSE /\ StoreBecomes(ImportedStore(kvGetAll(kv, lastWrite, syncHandle), file, now))
          /\ kvResult' = KvOutcome("importTraekyDbFromJson", "resolved")
  /\ UNCHANGED <<syncFile, TransferFrame>>

\* lines 211-235; an exception of getFile, text, JSON.parse or the import
\* ends in the catch
readSyncFileIfNewer ==
  /\ IF /\ syncHandle
        /\ syncFile # FileGone
        /\ IsDbFileObject(syncFile)
        /\ syncFile.magic = "traeky.db" /\ syncFile.version = 1
        /\ IncomingIsNewer(syncFile.lastWrite, lastWrite)
        /\ FormatAccepted(syncFile)
     THEN /\ StoreBecomes(ImportedStore(kvGetAll(kv, lastWrite, syncHandle), syncFile, now))
          /\ kvResult' = KvOutcome("readSyncFileIfNewer", TRUE)
     ELSE /\ kvResult' = KvOutcome("readSyncFileIfNewer", FALSE)
          /\ UNCHANGED <<kv, lastWrite, syncHandle>>
  /\ UNCHANGED <<syncFile, TransferFrame>>

\* writeSyncFileNow with a stored handle, lines 204-208: the export is
\* written to the file and the time of the write recorded
SyncFileWritten ==
  /\ syncHandle
  /\ syncFile' = exportTraekyDbToJson(kv, lastWrite, syncHandle)
  /\ lastWrite' = now
  /\ kvResult' = KvOutcome("writeSyncFileNow", "resolved")
  /\ UNCHANGED <<kv, syncHandle, TransferFrame>>

\* loginProfile (lines 424-504) run to its end with no other call in between:
\* the data of the session it installs, or the error it throws
Thrown(message) == [error |-> message]

LoginYields(index, pinIndex, k, profileId, pin) ==
  LET meta == FindProfile(index.profiles, profileId)
  IN IF Len(index.profiles) = 0 \/ meta = None THEN Thrown("Profile not found")
     ELSE IF pinIndex[meta.id] = None THEN Thrown("Invalid PIN")
     ELSE LET c == [meta |-> meta, stored |-> pinIndex[meta.id], pin |-> pin]
              encrypted == k.data[meta.id]
          IN IF ~PinMatches(LoginPinHash(c), c.stored) THEN Thrown("Invalid PIN")
             ELSE IF encrypted = None THEN Thrown("Profile data not found")
             ELSE LET data == decryptProfilePayload(meta.id, pin, encrypted)
                      old == decryptProfilePayloadLegacy(encrypted)
                      got == IF data # DecryptionError THEN data ELSE old
                  IN IF got = DecryptionError THEN DecryptionError
                     ELSE IF got.version # 1
                     THEN Thrown("Unsupported profile data version")
                     ELSE [transactions |-> got.transactions]

\* The exported file is imported into a vault whose store is empty; its
\* initProfileStore then loads the caches from the store (lines 315-318).
ImportIntoEmptyVault ==
  /\ replica = None
  /\ LET file == exportTraekyDbToJson(kv, lastWrite, syncHandle)
         store == ImportedStore(kvGetAll(EmptyKv, 0, FALSE), file, now)
     IN replica' = [kv |-> KvOf(store), lastWrite |-> LastWriteOf(store),
                    syncHandle |-> HandleOf(store),
                    index |-> validateProfilesIndex(KvOf(store).index),
                    pinIndex |-> validatePinIndex(KvOf(store).pinIndex)]
  /\ UNCHANGED <<vaultVars, now, dbVars, codecVars, engineVars, timerVars, migrVars,
                 bootVars, parked, lastWrite, syncFile, kvResult>>

\* A store an earlier session left, the stores of a second device that
\* shares the sync file, and what the stored handle can give.
LocalKv ==
  LET meta == [id |-> 1, name |-> "Alice", createdAt |-> 1, updatedAt |-> 1]
  IN [index |-> [currentProfileId |-> 1, profiles |-> <<meta>>],
      pinIndex |-> [p \in ProfileIds |->
                      IF p = 1 THEN [v |-> 2, hash |-> hashPinForProfile(1, "1234")]
                      ELSE None],
      data |-> [p \in ProfileIds |->
                  IF p = 1 THEN encryptProfilePayload(1, "1234", createEmptyProfileData)
                  ELSE None]]

RemoteKv ==
  LET meta == [id |-> 1, name |-> "Alice", createdAt |-> 1, updatedAt |-> 2]
      bob == [id |-> 2, name |-> "Bob", createdAt |-> 2, updatedAt |-> 2]
  IN [index |-> [currentProfileId |-> 2, profiles |-> <<meta, bob>>],
      pinIndex |-> [p \in ProfileIds |->
                      [v |-> 2, hash |-> hashPinForProfile(p, "1234")]],
      data |-> [p \in ProfileIds |->
                  encryptProfilePayload(p, "1234", createEmptyProfileData)]]

RemoteFile(lw) == exportTraekyDbToJson(RemoteKv, lw, TRUE)

JsonFiles ==
  {RemoteFile(lw) : lw \in 0..MaxClock}
    \cup {exportTraekyDbToJson(EmptyKv, 0, TRUE),
          [RemoteFile(1) EXCEPT !.magic = "other.db"],
          [RemoteFile(1) EXCEPT !.version = 2],
          [magic |-> "traeky.db", version |-> 1, lastWrite |-> MaxClock]}

SyncFiles == JsonFiles \cup {FileGone, NotJson}

InitSyncFile ==
  /\ cachedProfilesIndex = EmptyIndex
  /\ cachedPinIndex = [p \in ProfileIds |-> None]
  /\ kv \in {EmptyKv, LocalKv}
  /\ legacy = NoLegacy
  /\ freeIds = <<2>>
  /\ capacity = 1 /\ activeProfile = None /\ cmd = None /\ persists = <<>>
  /\ result = "none" /\ issued = <<>> /\ everIssued = [p \in ProfileIds |-> 0]
  /\ atLogout = None
  /\ now = MaxClock
  /\ InitDbIdle /\ InitCodecIdle /\ InitEngineIdle /\ InitMigrIdle
  /\ lsProfiles = NoLsProfiles
  /\ boot = [pc |-> "start", k |-> 0]
  /\ legacyKeyConfigured = TRUE
  /\ deleted = {}
  /\ parked = None /\ kvResult = None /\ replica = None
  /\ lastWrite \in 0..MaxClock
  /\ syncTimer = 0 /\ timers = {} /\ timerClock = 0 /\ timerSeq = 0 /\ kvVersion = 0
  /\ syncCalls = <<>> /\ bursts = 0 /\ lastScheduleAt = 0
  /\ syncHandle \in BOOLEAN
  /\ IF syncHandle THEN syncFile \in SyncFiles ELSE syncFile = None

NextSyncFile ==
  \/ readSyncFileIfNewer
  \/ \E file \in SyncFiles \ {FileGone} : importTraekyDbFromJson(file)
  \/ SyncFileWritten

SpecSyncFile == InitSyncFile /\ [][NextSyncFile]_vars

\* One vault with its profiles, a transaction added under the id drawn for
\* it, exported at some moment and imported into an empty vault.
InitRoundTrip ==
  /\ (InitVaultFresh \/ InitVaultOld) /\ InitVault /\ legacy = NoLegacy /\ capacity = 1
  /\ Len(freeIds) = MaxProfiles - Len(cachedProfilesIndex.profiles)
  /\ now = 1
  /\ InitDbIdle /\ InitOtherIdle

NextRoundTrip ==
  \/ replica = None /\ CreateInitialStart("Alice", "1234")
  \/ replica = None /\ CreateInitialHashed
  \/ replica = None /\ CreateAdditionalStart("Bob", "9999")
  \/ replica = None /\ CreateAdditionalEncrypted
  \/ replica = None /\ CreateAdditionalFinish
  \/ replica = None /\ LoginStart(1, "1234")
  \/ replica = None /\ LoginVerify
  \/ replica = None /\ LoginDecrypted
  \/ replica = None /\ LoginUpgraded
  \/ replica = None /\ getNextActiveProfileTxId
  \/ replica = None /\ 1 \in Range(issued) /\ setActiveProfileTransactions({1})
  \/ replica = None /\ logoutActiveProfileSession
  \/ replica = None /\ PersistOps
  \/ ImportIntoEmptyVault

SpecRoundTrip == InitRoundTrip /\ [][NextRoundTrip]_vars

\* ============================================================ properties
IsLoginEnd == cmd # None /\ cmd.op = "login" /\ cmd' = None /\ result' = "logged in"

\* C1: within one session the ids getNextActiveProfileTxId returns are
\* pairwise distinct and strictly increasing in call order, whatever
\* transactions are added or deleted in between.
C1_TxIdsIncreasing ==
  \A i, j \in DOMAIN issued : i < j => issued[i] < issued[j]

\* two ids were drawn, the transaction carrying the first was stored and
\* has since been deleted
C1_Witness ==
  /\ activeProfile # None
  /\ issued = <<1, 2>>
  /\ 1 \notin activeProfile.data.transactions
  /\ kv.data[1] # None
  /\ 1 \in kv.data[1].plain.transactions

\* C2: nextTransactionId of the session's payload is above the id of every
\* transaction the profile holds or was ever issued.
C2_NextIdAboveAll ==
  activeProfile # None =>
    activeProfile.data.nextTransactionId >
      Max(activeProfile.data.transactions \cup {everIssued[activeProfile.meta.id]})

\* C3: a login that follows a logout of the same profile installs exactly
\* the transactions and nextTransactionId the session held at logout.
C3_RoundTrip ==
  [][(IsLoginEnd /\ atLogout # None /\ atLogout.id = cmd.meta.id)
       => /\ activeProfile'.data.transactions = atLogout.data.transactions
          /\ activeProfile'.data.nextTransactionId = atLogout.data.nextTransactionId]_vars

\* C4: a loginProfile whose PIN is not the one behind the stored hash ends
\* with "Invalid PIN" and leaves the session, the profile index, the PIN
\* index and the store as they were.
C4_WrongPinChangesNothing ==
  [][(/\ cmd # None /\ cmd.op = "login" /\ cmd.pc = "hash"
      /\ cmd.stored.hash.pin # cmd.pin
      /\ cmd' # cmd)
       => /\ result' = "Invalid PIN"
          /\ cmd' = None
          /\ UNCHANGED <<activeProfile, cachedProfilesIndex, cachedPinIndex, kv>>]_vars

\* a wrong PIN was rejected while another session was open
C4_Witness ==
  /\ result = "Invalid PIN"
  /\ activeProfile # None
  /\ Len(cachedProfilesIndex.profiles) = 2

IsStepOfPersist(i) ==
  \/ persists' = RemoveAt(persists, i)
  \/ persists' = [persists EXCEPT ![i].pc = "put"]

\* C5: a persist whose session was ended by logout changes neither the
\* store nor the index nor the session when it resumes.
C5_StalePersistHarmless ==
  [][\A i \in DOMAIN persists :
       (persists[i].ended /\ IsStepOfPersist(i))
         => UNCHANGED <<kv, cachedProfilesIndex, activeProfile>>]_vars

\* C6: once every persist issued has completed, the stored payload decrypts
\* to the in-memory session data.
C6_LastWriteIsLatest ==
  (activeProfile # None /\ persists = <<>> /\ cmd = None)
    => /\ kv.data[activeProfile.meta.id] # None
       /\ decryptProfilePayload(activeProfile.meta.id, activeProfile.pin,
                                kv.data[activeProfile.meta.id]) = activeProfile.data

\* ---- the merge of an imported file into the loaded database
MergeStep == db # None /\ imported # None /\ imported' = None

OnBothSides(id) ==
  /\ FindProfile(db.index.profiles, id) # None
  /\ FindProfile(imported.index.profiles, id) # None

LocalUpdatedAt(id) == FindProfile(db.index.profiles, id).updatedAt

ImportedUpdatedAt(id) == FindProfile(imported.index.profiles, id).updatedAt

MergedFromLocal(id) ==
  /\ FindProfile(db'.index.profiles, id) = FindProfile(db.index.profiles, id)
  /\ db'.profileData[id] = db.profileData[id]

MergedFromImported(id) ==
  /\ FindProfile(db'.index.profiles, id) = FindProfile(imported.index.profiles, id)
  /\ db'.profileData[id] = imported.profileData[id]

CiphertextsDiffer(id) ==
  /\ db.profileData[id] # None
  /\ imported.profileData[id] # None
  /\ db.profileData[id].ciphertext # imported.profileData[id].ciphertext

ConflictingIds ==
  {id \in FileIds : /\ OnBothSides(id)
                    /\ LocalUpdatedAt(id) = ImportedUpdatedAt(id)
                    /\ CiphertextsDiffer(id)}

\* C7: for a profile id on both sides whose updatedAt values differ, the
\* merged profile's metadata and its encrypted payload both come from the
\* strictly newer side.
C7_NewerSideWinsWholesale ==
  [][MergeStep =>
       \A id \in FileIds :
         (OnBothSides(id) /\ LocalUpdatedAt(id) # ImportedUpdatedAt(id)) =>
           IF LocalUpdatedAt(id) < ImportedUpdatedAt(id)
           THEN MergedFromImported(id)
           ELSE MergedFromLocal(id)]_vars

C7_Witness ==
  /\ db # None /\ imported = None
  /\ mergeCase[1] = "imported newer"
  /\ FindProfile(db.index.profiles, 1) =
       [id |-> 1, name |-> "Bob", createdAt |-> 1, updatedAt |-> 2]
  /\ db.profileData[1] # None /\ db.profileData[1].ciphertext = "c2"

C9_DisjointMergeKeepsAll ==
  [][(MergeStep /\ ListIds(db.index.profiles) \cap ListIds(imported.index.profiles) = {}) =>
       /\ ListIds(db'.index.profiles) =
            ListIds(db.index.profiles) \cup ListIds(imported.index.profiles)
       /\ Len(db'.index.profiles) = Len(db.index.profiles) + Len(imported.index.profiles)
       /\ \A id \in ListIds(db.index.profiles) : MergedFromLocal(id)
       /\ \A id \in ListIds(imported.index.profiles) : MergedFromImported(id)
       /\ conflicts' = 0]_vars

C9_Witness ==
  /\ db # None /\ imported = None
  /\ mergeCase[2] = "local only" /\ mergeCase[1] = "imported only"
  /\ Len(db.index.profiles) = 2 /\ db.index.profiles[1].id = 2
  /\ db.profileData[1] # None /\ db.profileData[2] # None

\* C10: after a merge currentProfileId is unchanged if that profile is still
\* in the merged profile list, otherwise it is the first profile of the
\* merged list, or null when the list is empty.
C10_CurrentProfileFollowsList ==
  [][MergeStep =>
       LET current == db.index.currentProfileId
           merged == db'.index.profiles
       IN IF current = NoId \/ current \in ListIds(merged)
          THEN db'.index.currentProfileId = current
          ELSE db'.index.currentProfileId =
                 IF Len(merged) > 0 THEN merged[1].id ELSE NoId]_vars


\* ---- the storage codecs
IsDeserialize == codecOp \in {"parseDbFromSqlite", "parseDb", "parseDbDefensive"}

\* C11: every database returned by a deserializer has a currentProfileId
\* that is null or the id of a profile of its list.
C11_DeserializedIndexValid ==
  IsDeserialize /\ IsDb(codecOut) =>
    codecOut.index.currentProfileId \in {NoId} \cup ListIds(codecOut.index.profiles)

DistinctCreatedAt(profiles) ==
  \A a, b \in DOMAIN profiles : a # b => profiles[a].createdAt # profiles[b].createdAt

\* C12: parsing the SQLite file written for a valid database gives back the
\* profiles of the index in the same order, the payloads under the same ids,
\* the current profile, the ui settings and the revision.  Stated for the
\* databases whose profiles all differ in createdAt, where the order of the
\* rows read back is fixed by the query.
C12_SqliteRoundTrip ==
  codecOp = "roundTrip" /\ DistinctCreatedAt(codecIn.index.profiles) =>
    /\ codecOut.index.profiles = codecIn.index.profiles
    /\ codecOut.profileData = codecIn.profileData
    /\ codecOut.index.currentProfileId = codecIn.index.currentProfileId
    /\ codecOut.ui = codecIn.ui
    /\ codecOut.meta.revision = codecIn.meta.revision

\* an input that is not in the format at all, or carries a format version
\* other than 1 (a missing one included)
InvalidTopLevel(input) ==
  \/ input \in {NotADatabase, NotJson, JsonScalar}
  \/ "ui_settings" \in DOMAIN input /\ input.meta.version # 1
  \/ IsDbFileObject(input) /\ input.version # 1

\* C13: a deserializer given an input of invalid top-level shape returns no
\* database.
C13_InvalidInputRejected ==
  IsDeserialize /\ InvalidTopLevel(codecIn) => ~IsDb(codecOut)

\* ---- the engine's life cycle
InitReturns == isInitializing /\ ~isInitializing'

\* C14: when initDbAuto returns and the stored handle's file is readable,
\* the database it started from is the one of that file.
C14_LinkedFileFirst ==
  [][InitReturns /\ idb.handle # None /\ Loadable(linkedFile) # {}
       => startedFrom' = "handle"]_vars

\* C17: a loaded database that is not dirty is the database last loaded or
\* last written successfully.
C17_CleanMeansSaved ==
  db # None /\ ~isDirty => db = durableDb

MigrationStep ==
  /\ InitCreateAndMigrate
  /\ migrateLegacyLocalStorageIntoDb(IF db = None THEN createEmptyDb(now, "en") ELSE db).migrated
MergeIntoLoaded == db # None /\ mergeImportedDb
ReplacesDb == (FileLoaded /\ engineJob.op = "openDbInteractive") \/ createNewDbInteractive

TimerCalls == {k \in DOMAIN syncCalls : syncCalls[k].by = "timer"}

\* C15: at most one auto-sync timer is pending, due one quiet period after
\* the last scheduleAutoSync call; every burst of calls has led to exactly one
\* writeSyncFileNow by the timer or still has its one timer pending, and no
\* such write came sooner than one quiet period after the last call before it.
C15_Debounced ==
  /\ timers = IF syncTimer = 0 THEN {}
              ELSE {[id |-> syncTimer, due |-> lastScheduleAt + QuietPeriod]}
  /\ Cardinality(TimerCalls) + Cardinality(timers) = bursts
  /\ \A k \in TimerCalls : syncCalls[k].at >= syncCalls[k].lastCall + QuietPeriod

\* a burst of several calls was written once by the timer, and a later
\* burst has its timer pending
C15_Witness ==
  /\ Cardinality(TimerCalls) = 1
  /\ \E k \in TimerCalls : syncCalls[k].version > 1
  /\ bursts = 2
  /\ syncTimer # 0

\* C16: the timer never writes a state of the store that a caller's own
\* writeSyncFileNow or pickOrCreateSyncFile has written already.
C16_NoSecondWrite ==
  \A k, m \in DOMAIN syncCalls :
    k < m /\ syncCalls[k].by = "manual" /\ syncCalls[k].wrote /\ syncCalls[m].by = "timer"
      => syncCalls[m].version # syncCalls[k].version

\* ---- the legacy migrators
MigratorRuns == RunMigratorAsync \/ RunMigratorInline

\* the same migrator ran just before on the same localStorage and left
\* profiles in the database
SecondRun ==
  /\ ranOn # None
  /\ ranOn.storage = localStorage
  /\ ranOn'.by = ranOn.by
  /\ Len(migrDb.index.profiles) > 0

\* C19: a second run of the migrator on the same localStorage, the database
\* holding profiles after the first, changes neither the index nor the
\* payloads nor the revision nor the list of pending CSV backups.
C19_SecondRunChangesNothing ==
  [][MigratorRuns /\ SecondRun =>
       /\ migrDb'.index = migrDb.index
       /\ migrDb'.profileData = migrDb.profileData
       /\ migrDb'.meta.revision = migrDb.meta.revision
       /\ pendingCsvBackups' = pendingCsvBackups]_vars

\* C20: run on a database that holds profiles, the migrator leaves its
\* index and its payloads as they are.
C20_OnlyOnEmptyIndex ==
  [][MigratorRuns /\ Len(migrDb.index.profiles) > 0 =>
       /\ migrDb'.index = migrDb.index
       /\ migrDb'.profileData = migrDb.profileData]_vars

\* ---- the migrations of profileStore.ts
\* the store holds the transactions, the next id and the settings that the
\* keys of the single-profile scheme held
StoresLegacyItems(l, store) ==
  \E p \in ProfileIds :
    /\ store.data[p] # None
    /\ store.data[p].plain.transactions =
         (IF l.transactions = <<>> THEN {} ELSE l.transactions[1])
    /\ l.nextId # NoId => store.data[p].plain.nextTransactionId = l.nextId
    /\ l.config # "" => store.data[p].plain.config = l.config

\* C21: no migration loses user data: a legacy key leaves localStorage only
\* when the store already holds what the key held, for the keys of the
\* single-profile scheme and for the profile keys migrateLegacyProfilesToDb
\* moves, a failing store write included.
C21_LegacyKeptUntilStored ==
  [][/\ (legacy # NoLegacy /\ legacy' = NoLegacy) => StoresLegacyItems(legacy, kv')
     /\ (lsProfiles.index # None /\ lsProfiles'.index = None) =>
           kv'.index = validateProfilesIndex(lsProfiles.index)
     /\ (lsProfiles.pinIndex # None /\ lsProfiles'.pinIndex = None) =>
           kv'.pinIndex = lsProfiles.pinIndex
     /\ \A p \in ProfileIds :
          (lsProfiles.data[p] # None /\ lsProfiles'.data[p] = None) =>
             kv'.data[p] = lsProfiles.data[p]]_vars

\* a profile of the legacy index whose payload is in localStorage while the
\* build has no legacy key to decrypt it with; no database snapshot, and
\* nothing in the database yet
Undecryptable(id) ==
  /\ localStorage.dbSnapshot = None
  /\ localStorage.profilesIndex # None
  /\ id \in ListIds(localStorage.profilesIndex.profiles)
  /\ localStorage.payloads[id] # None
  /\ ~localStorage.legacyKey
  /\ Len(migrDb.index.profiles) = 0

\* C22: a profile of the legacy index that cannot be decrypted is imported
\* all the same: it is in the migrated index, its ciphertext is the one
\* found and its payload carries the scope "legacy-appkey".
C22_UndecryptableImported ==
  [][\A id \in FileIds :
       MigratorRuns /\ Undecryptable(id) =>
         /\ id \in ListIds(migrDb'.index.profiles)
         /\ migrDb'.profileData[id] # None
         /\ migrDb'.profileData[id].ciphertext = localStorage.payloads[id].ciphertext
         /\ migrDb'.profileData[id].scope = "legacy-appkey"]_vars

\* the profiles a run of the migrator takes from localStorage that hold at
\* least one transaction readable with the legacy key: from the snapshot,
\* else from the legacy index, else the single implicit profile
HoldsTransactions(id) ==
  IF localStorage.dbSnapshot # None
  THEN id \in localStorage.csvReady /\ id \in ListIds(localStorage.dbSnapshot.index.profiles)
  ELSE IF localStorage.profilesIndex # None
  THEN id \in localStorage.csvReady /\ id \in ListIds(localStorage.profilesIndex.profiles)
  ELSE id = LEGACY_SINGLE_PROFILE_ID /\ localStorage.singleTx

BackupPending(id, database, backups) ==
  \E k \in DOMAIN database.index.profiles :
    /\ database.index.profiles[k].id = id
    /\ database.index.profiles[k].name \in Range(backups)

\* C23: with the legacy key configured and the backups not downloaded yet, a
\* run of the migrator that adds a profile holding at least one transaction
\* leaves a CSV backup of it pending, whichever path it takes.
C23_BackupBeforeChange ==
  [][\A id \in FileIds :
       /\ RunMigratorAsync
       /\ localStorage.legacyKey /\ ~localStorage.backupDone
       /\ id \notin ListIds(migrDb.index.profiles)
       /\ id \in ListIds(migrDb'.index.profiles)
       /\ HoldsTransactions(id)
       => BackupPending(id, migrDb', pendingCsvBackups')]_vars

\* C24: the legacy fixed passphrase only ever decrypts: no operation
\* encrypts a payload under it, neither a write of the vault to the store
\* (creation, persist, the upgrade at login) nor a run of the migrator.
C24_LegacyKeyOnlyDecrypts ==
  [][/\ \A p \in ProfileIds :
          (kv'.data[p] # kv.data[p] /\ kv'.data[p] # None /\ kv'.data[p] # lsProfiles.data[p])
             => kv'.data[p].pass # LEGACY_FIXED_PASSPHRASE
     /\ RunMigratorAsync => LEGACY_FIXED_PASSPHRASE \notin MigratorEncryptsUnder(migrDb)]_vars

\* ---- the PIN-derived keys of two profiles
\* C25: for one PIN and two different profile ids the derived passphrases
\* differ, the v2 PIN hashes differ, and what encryptProfilePayload wrote for
\* the one profile decryptProfilePayload does not open for the other.
C25_KeysBoundToProfile ==
  (codecOp = "deriveForTwoProfiles" /\ codecIn.a # codecIn.b) =>
     /\ codecOut.passA # codecOut.passB
     /\ codecOut.hashA # codecOut.hashB
     /\ codecOut.opened = DecryptionError

\* two ids of which one continues the other with the separator, under a PIN
\* that starts with the separator
C25_Witness ==
  /\ codecOp = "deriveForTwoProfiles"
  /\ codecIn.b = codecIn.a \o <<":">>
  /\ Len(codecIn.pin) > 0 /\ codecIn.pin[1] = ":"
  /\ codecOut.opened = DecryptionError

\* ---- the upgrade of a legacy profile at login
LoginSucceeds == cmd # None /\ cmd.op = "login" /\ cmd' = None /\ result' = "logged in"

LoginThrows == cmd # None /\ cmd.op = "login" /\ cmd' = None /\ result' # "logged in"

\* C26: a login that succeeds leaves the stored PIN hash in the v2 form and
\* the stored payload under the PIN-derived passphrase; a stored hash once v2
\* never goes back, so the upgrade happens once; a login that fails leaves
\* the stored hash and the stored payload as the call found them.
C26_UpgradeOnSuccessOnly ==
  [][/\ LoginSucceeds =>
          /\ kv'.pinIndex[cmd.meta.id] = [v |-> 2, hash |-> hashPinForProfile(cmd.meta.id, cmd.pin)]
          /\ decryptProfilePayload(cmd.meta.id, cmd.pin, kv'.data[cmd.meta.id]) # DecryptionError
     /\ \A p \in ProfileIds :
          (kv.pinIndex[p] # None /\ kv.pinIndex[p].v = 2) =>
             (kv'.pinIndex[p] # None /\ kv'.pinIndex[p].v = 2)
     /\ LoginThrows =>
          /\ kv'.pinIndex[cmd.meta.id] = cmd.stored
          /\ cmd.pc # "hash" => kv'.data[cmd.meta.id] = cmd.encrypted]_vars

\* ---- the session operations
\* a session operation is called while no session is active
CalledWithoutSession ==
  /\ activeProfile = None
  /\ \/ \E op \in GuardedOperations : CallWithoutSession(op)
     \/ deleteActiveProfile
     \/ \E pin \in Pins : VerifyPinStart(pin)
     \/ \E currentPin \in Pins, newPin \in Pins : ChangePinStart(currentPin, newPin)

\* C27: every session operation called without a session, after a logout
\* or a deleteActiveProfile as well, fails with "No active profile session"
\* and leaves the index, the PIN index and the store as they are.
C27_NoSessionNoEffect ==
  [][CalledWithoutSession =>
       /\ result' = NoActiveSession
       /\ activeProfile' = None
       /\ kv' = kv
       /\ cachedProfilesIndex' = cachedProfilesIndex
       /\ cachedPinIndex' = cachedPinIndex]_vars

\* a call was refused after the session's profile had been deleted, another
\* profile being left in the index
C27_Witness ==
  /\ result = NoActiveSession
  /\ activeProfile = None
  /\ deleted # {}
  /\ Len(cachedProfilesIndex.profiles) > 0

\* ---- deleteActiveProfile
\* nothing of profile id is left: no payload, no PIN entry, no index entry
Gone(id, store, index, pins) ==
  /\ store.data[id] = None
  /\ store.pinIndex[id] = None
  /\ pins[id] = None
  /\ id \notin ListIds(store.index.profiles)
  /\ id \notin ListIds(index.profiles)

DeletesSession == activeProfile # None /\ deleteActiveProfile

\* no persist and no other vault call is in flight
Quiet(ps, c) == ps = <<>> /\ c = None

\* C30: deleteActiveProfile leaves no session and makes the first remaining
\* profile, or none, the current one; and once every store operation that
\* was in flight has completed, the store and the index hold nothing of a
\* deleted profile: no payload, no PIN entry, no index entry.
C30_DeletedStaysDeleted ==
  [][/\ DeletesSession =>
          /\ activeProfile' = None
          /\ cachedProfilesIndex'.currentProfileId =
               (IF Len(cachedProfilesIndex'.profiles) > 0
                THEN cachedProfilesIndex'.profiles[1].id ELSE NoId)
          /\ kv'.index = cachedProfilesIndex'
     /\ Quiet(persists', cmd') =>
          \A id \in deleted' : Gone(id, kv', cachedProfilesIndex', cachedPinIndex')]_vars

\* ---- changeActiveProfilePin
\* the hashes of a changeActiveProfilePin call resolve while the session it
\* was called in is still there
PinChangeDecided == cmd # None /\ cmd.op = "changePin" /\ activeProfile # None /\ ChangePinHashed

\* C28: changeActiveProfilePin with a currentPin that is not the session's
\* PIN fails with "Invalid current PIN" and changes nothing: the session, the
\* PIN index and the store are as before, no persist is started, and the
\* stored hash is still the one of the old PIN.
C28_WrongPinChangesNothing ==
  [][(PinChangeDecided /\ cmd.currentPin # activeProfile.pin) =>
       /\ result' = "Invalid current PIN"
       /\ activeProfile' = activeProfile
       /\ cachedPinIndex' = cachedPinIndex
       /\ kv' = kv
       /\ persists' = persists
       /\ kv'.pinIndex[activeProfile.meta.id].hash =
            hashPinForProfile(activeProfile.meta.id, activeProfile.pin)]_vars

\* a change was refused in a session whose stored hash and stored payload
\* both belong to the session's PIN, so that a login with it goes through
C28_Witness ==
  /\ result = "Invalid current PIN"
  /\ activeProfile # None
  /\ persists = <<>>
  /\ kv.pinIndex[activeProfile.meta.id] =
       [v |-> 2, hash |-> hashPinForProfile(activeProfile.meta.id, activeProfile.pin)]
  /\ kv.data[activeProfile.meta.id] # None
  /\ decryptProfilePayload(activeProfile.meta.id, activeProfile.pin,
                           kv.data[activeProfile.meta.id]) # DecryptionError

\* C29: once changeActiveProfilePin has succeeded and every persist issued
\* before it or by it has completed, in whatever order, the stored PIN hash
\* and the stored payload belong to the same PIN, the new one: a login with
\* it passes the hash test and opens the payload, a login with another PIN
\* is refused.
C29_HashAndPayloadAgree ==
  (result = "pin changed" /\ activeProfile # None /\ persists = <<>> /\ cmd = None) =>
     LET id == activeProfile.meta.id
         newPin == activeProfile.pin
     IN /\ kv.pinIndex[id] = [v |-> 2, hash |-> hashPinForProfile(id, newPin)]
        /\ \A pin \in Pins \ {newPin} : kv.pinIndex[id].hash # hashPinForProfile(id, pin)
        /\ kv.data[id] # None
        /\ decryptProfilePayload(id, newPin, kv.data[id]) # DecryptionError

\* ---------------------------------------------------------------- C31
\* the ids the stored index lists, and the ids a payload is stored for
IndexedIds == IF kv.index = None THEN {} ELSE ListIds(kv.index.profiles)

StoredPayloadIds == {p \in ProfileIds : kv.data[p] # None}

\* no vault call is at an await and every persist that was issued has ended,
\* with a write or with an error
VaultQuiescent == cmd = None /\ persists = <<>>

\* C31: once a state-changing vault operation has returned and the
\* persistence it issued has finished, successfully or with an error handed
\* to the caller, the profile ids of the stored index are exactly the ids
\* that have a stored encrypted payload.
C31_IndexMatchesPayloads == VaultQuiescent => IndexedIds = StoredPayloadIds

\* ---- the engine's dialogs
\* initDbAuto restored the stored handle and could not load its file: the
\* snapshot did not load either and the database was created empty
HandleReadFailed == fsAccess /\ idb.handle # None /\ startedFrom = "empty"

\* C32: when initDbAuto returns after the restored handle's file could not be
\* read, a database is loaded, the engine is no longer initializing, and no
\* file handle is bound any more, so that a later syncDbNow does not save
\* through the unreadable one.
C32_UnreadableHandleDropped ==
  [][InitReturns /\ HandleReadFailed =>
       /\ db' # None
       /\ ~isInitializing'
       /\ fileHandle' = None]_vars

\* a call has just reached a dialog that waits for the user
DialogPcs == {"showOpenFilePicker", "showSaveFilePicker", "inputPicker"}

OpensDialog == engineJob = None /\ engineJob' # None /\ engineJob'.pc \in DialogPcs

DialogDismissed == PickerAbandoned \/ InputAbandoned

\* C33: a call of openDbInteractive, importDbInteractive, syncDbNow or
\* createNewDbInteractive whose dialog the user dismisses resolves without an
\* error and is a no-op: neither the call on its way to the dialog nor the
\* dismissal changes db, isDirty, conflicts, fileLabel or the bound handle.
C33_DismissedDialogIsNoOp ==
  [][/\ DialogDismissed => engineResult' = Settled(engineJob.op, "resolved")
     /\ DialogDismissed \/ OpensDialog =>
          UNCHANGED <<db, isDirty, conflicts, fileLabel, fileHandle>>]_vars

\* C39: createNewDbInteractive saves the new empty database only to a place
\* the user was asked for in that call: it never writes it through a handle
\* that was bound before.
C39_NewDbAsksWhere ==
  lastSave # None /\ lastSave.by = "createNewDbInteractive" /\ lastSave.via = "handle"
    => lastSave.prompted

ImportRuns == engineJob # None /\ engineJob.op = "importDbInteractive"

\* C40: no step of importDbInteractive, the merge included, changes the file
\* handle later saves go through, neither the one in memory nor the one
\* stored for the next start.
C40_ImportKeepsSyncTarget ==
  [][ImportRuns \/ mergeImportedDb =>
       fileHandle' = fileHandle /\ idb'.handle = idb.handle]_vars

\* C37: the initialization sequence of initDbAuto starts only if none has
\* started before, and whenever a call of initDbAuto resolves, at the end of
\* the sequence or at once, a database is loaded and the engine is not
\* initializing (isReady is true).
C37_InitOnceAndReady ==
  [][/\ initDbAuto => startedFrom = "none" /\ engineResult = None
     /\ InitReturns \/ initDbAutoAgain => db' # None /\ ~isInitializing']_vars

\* ---------------------------------------------------------------- C36
\* no call is running or suspended and no persist is in flight
AllCompleted == cmd = None /\ parked = None /\ persists = <<>>

\* the ids generateProfileId handed to a create (none is deleted here)
CreatedIds == ProfileIds \ Range(freeIds)

PinIndexedIds == {p \in ProfileIds : kv.pinIndex[p] # None}

OncePerId(profiles) ==
  \A i, j \in DOMAIN profiles : profiles[i].id = profiles[j].id => i = j

\* C36: after any interleaving of createInitialProfile,
\* createAdditionalProfile, loginProfile and in-flight persistActiveProfile
\* calls that all complete, the stored index lists every created profile
\* exactly once and its ids are the ids of the PIN-hash index.
C36_IndexLosesNoUpdate ==
  AllCompleted =>
    /\ IndexedIds = CreatedIds
    /\ kv.index # None => OncePerId(kv.index.profiles)
    /\ IndexedIds = PinIndexedIds

\* ---------------------------------------------------------------- C35
\* the read or the format of the linked file fails
ReadFails == syncFile = FileGone \/ ~IsDbFileObject(syncFile) \/ ~FormatAccepted(syncFile)

FileStrictlyNewer == syncFile.lastWrite # 0 /\ syncFile.lastWrite > lastWrite

ImportDue == syncHandle /\ ~ReadFails /\ (lastWrite = 0 \/ FileStrictlyNewer)

ReadReturned == kvResult # None /\ kvResult.op = "readSyncFileIfNewer"

\* C35: readSyncFileIfNewer imports the linked file into the local store
\* only if the file's lastWrite is strictly newer than the local lastWrite
\* or there is no local lastWrite; otherwise, and when the read or the
\* format fails, it returns false and leaves the local store unchanged.
C35_ImportsOnlyNewerFile ==
  [][readSyncFileIfNewer =>
       /\ kvResult'.value = ImportDue
       /\ ImportDue => \A key \in DOMAIN syncFile.kv :
                         kvGetAll(kv', lastWrite', syncHandle')[key] = syncFile.kv[key]
                           \/ key = DB_LAST_WRITE_KEY
       /\ ~ImportDue => kv' = kv /\ lastWrite' = lastWrite /\ syncHandle' = syncHandle]_vars

C35_Witness ==
  /\ ReadReturned /\ kvResult.value
  /\ kv = RemoteKv
  /\ lastWrite = MaxClock

\* ---------------------------------------------------------------- C38
Later(a, b) == IF a > b THEN a ELSE b

\* C38: after any import the stored lastWrite is the later of the previous
\* local lastWrite and the file's lastWrite, so it never moves backwards.
C38_LastWriteNeverBackwards ==
  [][\A file \in JsonFiles :
       importTraekyDbFromJson(file)
         /\ kvResult' = KvOutcome("importTraekyDbFromJson", "resolved")
       => /\ lastWrite' >= lastWrite
          /\ (lastWrite # 0 \/ file.lastWrite # 0)
               => lastWrite' = Later(lastWrite, file.lastWrite)]_vars

====
